---- MODULE Spec2Model ----
(***************************************************************************)
(* A model of the chess engine: bitboard Position, GameState make/undo,    *)
(* the move generator, and the search / reporter / Engine threads.         *)
(* A 64-bit bitboard is modelled as the set of its set bit positions       *)
(* (a subset of 0..63): | is \cup, & is \cap, &~ is set difference.        *)
(***************************************************************************)
EXTENDS Integers, Sequences, FiniteSets, Bags, TLC

\* ------------------------------------------------------------------------
\* Bounds of the model
\* ------------------------------------------------------------------------
MaxPly == 2

MaxEntries == 4

\* the largest depth limit of a go command
MaxDepthLimit == 2

\* ------------------------------------------------------------------------
\* Board primitives (boards.hpp)
\* ------------------------------------------------------------------------
NUM_BOARDS == 15

Squares == 0..63

W_PAWN == 0
W_KNIGHT == 1
W_BISHOP == 2
W_ROOK == 3
W_QUEEN == 4
W_KING == 5
W_ALL == 6
B_PAWN == 7
B_KNIGHT == 8
B_BISHOP == 9
B_ROOK == 10
B_QUEEN == 11
B_KING == 12
B_ALL == 13
BOTH_ALL == 14

PAWN == 0
KNIGHT == 1
BISHOP == 2
ROOK == 3
QUEEN == 4
KING == 5
ALL == 6

QUIET == 0
PAWN_DOUBLE == 1
KING_CASTLE == 2
QUEEN_CASTLE == 3
CAPTURE == 4
CAPTURE_EP == 5
PROMOTE_KNIGHT == 8
PROMOTE_BISHOP == 9
PROMOTE_ROOK == 10
PROMOTE_QUEEN == 11
PROMOTE_KNIGHT_CAPTURE == 12
PROMOTE_BISHOP_CAPTURE == 13
PROMOTE_ROOK_CAPTURE == 14
PROMOTE_QUEEN_CAPTURE == 15

BoardIdx == 0..(NUM_BOARDS - 1)

\* The twelve coloured piece kinds (every board index but the aggregates).
PieceKinds == BoardIdx \ {W_ALL, B_ALL, BOTH_ALL}

Move(from, to, p, fl) == [from |-> from, to |-> to, piece |-> p, flags |-> fl]

castle_kingside(m) == m.flags = KING_CASTLE

castle_queenside(m) == m.flags = QUEEN_CASTLE

double_pawn_push(m) == m.flags = PAWN_DOUBLE

\* (flags & 0x4) != 0 : bit 2 of the four-bit flag
capture(m) == (m.flags \div 4) % 2 = 1

capture_ep(m) == m.flags = CAPTURE_EP

promote_knight(m) == m.flags = PROMOTE_KNIGHT \/ m.flags = PROMOTE_KNIGHT_CAPTURE

promote_bishop(m) == m.flags = PROMOTE_BISHOP \/ m.flags = PROMOTE_BISHOP_CAPTURE

promote_rook(m) == m.flags = PROMOTE_ROOK \/ m.flags = PROMOTE_ROOK_CAPTURE

promote_queen(m) == m.flags = PROMOTE_QUEEN \/ m.flags = PROMOTE_QUEEN_CAPTURE

piece_is_white(piece) == piece <= 6

color_piece(piece, is_white) == IF is_white THEN piece ELSE piece + 7

\* Position::Position() : every board zero, every piece set empty
EmptyPosition ==
  [boards |-> [i \in BoardIdx |-> {}], piece_sets |-> [i \in BoardIdx |-> {}]]

place_piece(p, pos, piece) ==
  LET b1 == [p.boards EXCEPT ![piece] = @ \cup {pos}]
      b2 == [b1 EXCEPT ![BOTH_ALL] = @ \cup {pos}]
      b3 == IF piece_is_white(piece)
              THEN [b2 EXCEPT ![W_ALL] = @ \cup {pos}]
              ELSE [b2 EXCEPT ![B_ALL] = @ \cup {pos}]
  IN [boards |-> b3, piece_sets |-> [p.piece_sets EXCEPT ![piece] = @ \cup {pos}]]

\* a remove_piece that clears the boards and leaves the piece set as it was
remove_piece_boards_only(p, pos, piece) ==
  LET b1 == [p.boards EXCEPT ![piece] = @ \ {pos}]
      b2 == [b1 EXCEPT ![W_ALL] = @ \ {pos}]
      b3 == [b2 EXCEPT ![B_ALL] = @ \ {pos}]
      b4 == [b3 EXCEPT ![BOTH_ALL] = @ \ {pos}]
  IN [boards |-> b4, piece_sets |-> p.piece_sets]

remove_piece(p, pos, piece) ==
  LET b1 == [p.boards EXCEPT ![piece] = @ \ {pos}]
      b2 == [b1 EXCEPT ![W_ALL] = @ \ {pos}]
      b3 == [b2 EXCEPT ![B_ALL] = @ \ {pos}]
      b4 == [b3 EXCEPT ![BOTH_ALL] = @ \ {pos}]
  IN [boards |-> b4, piece_sets |-> [p.piece_sets EXCEPT ![piece] = @ \ {pos}]]

piece_at(p, square, piece) == square \in p.boards[piece]

find_piece(p, piece) == p.piece_sets[piece]

get_board(p, piece) == p.boards[piece]

\* for (i = 0; i < NUM_BOARDS; i++) remove_piece(captured_square, i)
RECURSIVE RemoveAll(_, _, _)
RemoveAll(p, sq, i) ==
  IF i >= NUM_BOARDS THEN p ELSE RemoveAll(remove_piece(p, sq, i), sq, i + 1)

Position_make_move(p0, m) ==
  LET from_square == m.from
      to_square == m.to
      piece == m.piece
      captured_square ==
        IF capture_ep(m)
          THEN (IF piece = W_PAWN THEN to_square - 8 ELSE to_square + 8)
          ELSE to_square
      p1 == IF capture(m) THEN RemoveAll(p0, captured_square, 0) ELSE p0
      p2 == remove_piece(p1, from_square, piece)
      p3 == IF promote_knight(m)
              THEN place_piece(p2, to_square, IF piece = W_PAWN THEN W_KNIGHT ELSE B_KNIGHT)
            ELSE IF promote_bishop(m)
              THEN place_piece(p2, to_square, IF piece = W_PAWN THEN W_BISHOP ELSE B_BISHOP)
            ELSE IF promote_rook(m)
              THEN place_piece(p2, to_square, IF piece = W_PAWN THEN W_ROOK ELSE B_ROOK)
            ELSE IF promote_queen(m)
              THEN place_piece(p2, to_square, IF piece = W_PAWN THEN W_QUEEN ELSE B_QUEEN)
            ELSE place_piece(p2, to_square, piece)
  IN IF castle_queenside(m)
       THEN (IF piece = W_KING
               THEN place_piece(remove_piece(p3, 0, W_ROOK), 3, W_ROOK)
               ELSE place_piece(remove_piece(p3, 56, B_ROOK), 59, B_ROOK))
     ELSE IF castle_kingside(m)
       THEN (IF piece = W_KING
               THEN place_piece(remove_piece(p3, 7, W_ROOK), 5, W_ROOK)
               ELSE place_piece(remove_piece(p3, 63, B_ROOK), 61, B_ROOK))
     ELSE p3

\* uint64_t a < b on bitboards: the highest bit in which they differ is set in b
BoardLess(a, b) ==
  /\ a # b
  /\ LET d == (a \ b) \cup (b \ a)
         top == CHOOSE x \in d : \A y \in d : y <= x
     IN top \in b

\* Position::operator<
Position_less(p, q) == \E i \in BoardIdx : BoardLess(p.boards[i], q.boards[i])

\* ------------------------------------------------------------------------
\* Attack tables (movegen.cpp)
\* ------------------------------------------------------------------------
Min(S) == CHOOSE x \in S : \A y \in S : x <= y

\* iteration order of std::set<int> and of the lsb loop: ascending squares
RECURSIVE SortedSeq(_)
SortedSeq(S) ==
  IF S = {} THEN <<>> ELSE LET lo == Min(S) IN <<lo>> \o SortedSeq(S \ {lo})

OnBoard(r, f) == r >= 0 /\ r < 8 /\ f >= 0 /\ f < 8

knight_moves ==
  [i \in Squares |->
    { 8 * ((i \div 8) + j) + ((i % 8) + k) :
        <<j, k>> \in { jk \in (-2..2) \X (-2..2) :
                        /\ jk[1] # 0
                        /\ jk[2] # 0 /\ jk[2] # jk[1] /\ jk[2] # -jk[1]
                        /\ OnBoard((i \div 8) + jk[1], (i % 8) + jk[2]) } }]

king_moves ==
  [i \in Squares |->
    { 8 * ((i \div 8) + j) + ((i % 8) + k) :
        <<j, k>> \in { jk \in (-1..1) \X (-1..1) :
                        /\ ~(jk[1] = 0 /\ jk[2] = 0)
                        /\ OnBoard((i \div 8) + jk[1], (i % 8) + jk[2]) } }]

\* one while loop of generate_occupancy_mask: the ray from (r, f) in direction
\* (dr, df), the edge squares left out (a zero step leaves that axis unbounded)
RECURSIVE MaskRay(_, _, _, _)
MaskRay(r, f, dr, df) ==
  LET nr == r + dr
      nf == f + df
      rok == IF dr > 0 THEN nr < 7 ELSE IF dr < 0 THEN nr > 0 ELSE TRUE
      fok == IF df > 0 THEN nf < 7 ELSE IF df < 0 THEN nf > 0 ELSE TRUE
  IN IF rok /\ fok THEN {8 * nr + nf} \cup MaskRay(nr, nf, dr, df) ELSE {}

RookDirs == {<<1, 0>>, <<-1, 0>>, <<0, 1>>, <<0, -1>>}

BishopDirs == {<<1, 1>>, <<1, -1>>, <<-1, 1>>, <<-1, -1>>}

generate_occupancy_mask(s, is_rook) ==
  UNION { MaskRay(s \div 8, s % 8, d[1], d[2]) :
            d \in (IF is_rook THEN RookDirs ELSE BishopDirs) }

\* one while loop of generate_attack: the ray up to and including the first
\* occupied square
RECURSIVE AttackRay(_, _, _, _, _)
AttackRay(r, f, dr, df, occupancy) ==
  LET nr == r + dr
      nf == f + df
      square == 8 * nr + nf
  IN IF ~OnBoard(nr, nf) THEN {}
     ELSE IF square \in occupancy THEN {square}
     ELSE {square} \cup AttackRay(nr, nf, dr, df, occupancy)

generate_attack(sq, occupancy, is_rook) ==
  UNION { AttackRay(sq \div 8, sq % 8, d[1], d[2], occupancy) :
            d \in (IF is_rook THEN RookDirs ELSE BishopDirs) }

rook_mask == [s \in Squares |-> generate_occupancy_mask(s, TRUE)]

bishop_mask == [s \in Squares |-> generate_occupancy_mask(s, FALSE)]

\* attack_table[((occ & mask) * magic) >> (64 - shift)] : generate_magic fills
\* the slot of every subset of the mask with generate_attack of that subset
rook_attack_lookup(sq, occupancy) ==
  generate_attack(sq, occupancy \cap rook_mask[sq], TRUE)

bishop_attack_lookup(sq, occupancy) ==
  generate_attack(sq, occupancy \cap bishop_mask[sq], FALSE)

get_attacks_to(p, target, white_to_move, occupancy) ==
  LET opp_knight == color_piece(KNIGHT, ~white_to_move)
      opp_bishop == color_piece(BISHOP, ~white_to_move)
      opp_rook == color_piece(ROOK, ~white_to_move)
      opp_queen == color_piece(QUEEN, ~white_to_move)
      opp_king == color_piece(KING, ~white_to_move)
      opp_pawn == color_piece(PAWN, ~white_to_move)
      bishop_attack == bishop_attack_lookup(target, occupancy)
      rook_attack == rook_attack_lookup(target, occupancy)
      krank == target \div 8
      kfile == target % 8
      right ==
        IF kfile < 7
          THEN (IF white_to_move /\ krank < 7
                  THEN (IF piece_at(p, target + 9, opp_pawn) THEN {target + 9} ELSE {})
                ELSE IF krank > 0
                  THEN (IF piece_at(p, target - 7, opp_pawn) THEN {target - 7} ELSE {})
                ELSE {})
          ELSE {}
      left ==
        IF kfile > 0
          THEN (IF white_to_move /\ krank < 7
                  THEN (IF piece_at(p, target + 7, opp_pawn) THEN {target + 7} ELSE {})
                ELSE IF krank > 0
                  THEN (IF piece_at(p, target - 9, opp_pawn) THEN {target - 9} ELSE {})
                ELSE {})
          ELSE {}
  IN (knight_moves[target] \cap get_board(p, opp_knight))
       \cup (king_moves[target] \cap get_board(p, opp_king))
       \cup (bishop_attack \cap (get_board(p, opp_bishop) \cup get_board(p, opp_queen)))
       \cup (rook_attack \cap (get_board(p, opp_rook) \cup get_board(p, opp_queen)))
       \cup right \cup left

get_check_board(white_to_move, p) ==
  LET king == color_piece(KING, white_to_move)
      king_sq == Min(find_piece(p, king))
  IN get_attacks_to(p, king_sq, white_to_move, get_board(p, BOTH_ALL))

in_check(white_to_move, p) == get_check_board(white_to_move, p) # {}

\* ------------------------------------------------------------------------
\* GameState queries (boards.hpp)
\* ------------------------------------------------------------------------
castle_through_kingside(n) ==
  IF n.white_to_move /\ n.w_castle_k THEN {4, 5, 6}
  ELSE IF ~n.white_to_move /\ n.b_castle_k THEN {60, 61, 62}
  ELSE {}

castle_through_queenside(n) ==
  IF n.white_to_move /\ n.w_castle_q THEN {2, 3, 4}
  ELSE IF ~n.white_to_move /\ n.b_castle_q THEN {58, 59, 60}
  ELSE {}

\* ------------------------------------------------------------------------
\* Move generation (movegen.cpp); a MoveList is a sequence of moves
\* ------------------------------------------------------------------------
append_moves_from(from_square, to_squares, piece, opp_pieces) ==
  LET ts == SortedSeq(to_squares)
  IN [i \in 1..Len(ts) |->
        Move(from_square, ts[i], piece,
             IF ts[i] \in opp_pieces THEN CAPTURE ELSE QUIET)]

generate_king_moves(n) ==
  LET p == n.position
      our_king == color_piece(KING, n.white_to_move)
      our_pieces == color_piece(ALL, n.white_to_move)
      king_square == Min(find_piece(p, our_king))
      opp_pieces == color_piece(ALL, ~n.white_to_move)
  IN append_moves_from(king_square, king_moves[king_square] \ get_board(p, our_pieces),
                       our_king, get_board(p, opp_pieces))

\* a path test that looks at occupancy only and never at attacks
CastlePathEmpty(n, squares_to_check) ==
  LET p == n.position
      occupancy == get_board(p, BOTH_ALL)
      king_board == get_board(p, color_piece(KING, n.white_to_move))
  IN \A sq \in squares_to_check : ~(sq \in occupancy /\ sq \notin king_board)

\* the while loop over squares_to_check: no square attacked, none occupied by
\* anything but our own king
CastlePathClear(n, squares_to_check) ==
  LET p == n.position
      occupancy == get_board(p, BOTH_ALL)
      king_board == get_board(p, color_piece(KING, n.white_to_move))
  IN \A sq \in squares_to_check :
       /\ get_attacks_to(p, sq, n.white_to_move, occupancy) = {}
       /\ ~(sq \in occupancy /\ sq \notin king_board)

append_castling_moves(n) ==
  LET p == n.position
      white_to_move == n.white_to_move
      occupancy == get_board(p, BOTH_ALL)
      ks == castle_through_kingside(n)
      qs == castle_through_queenside(n)
      kmoves ==
        IF ks # {} /\ CastlePathClear(n, ks)
          THEN (IF white_to_move /\ piece_at(p, 4, W_KING) /\ piece_at(p, 7, W_ROOK)
                  THEN <<Move(4, 6, W_KING, KING_CASTLE)>>
                ELSE IF ~white_to_move /\ piece_at(p, 60, B_KING) /\ piece_at(p, 63, B_ROOK)
                  THEN <<Move(60, 62, B_KING, KING_CASTLE)>>
                ELSE <<>>)
          ELSE <<>>
      qmoves ==
        IF qs # {} /\ CastlePathClear(n, qs)
          THEN (IF white_to_move /\ piece_at(p, 4, W_KING) /\ piece_at(p, 0, W_ROOK)
                     /\ 1 \notin occupancy
                  THEN <<Move(4, 2, W_KING, QUEEN_CASTLE)>>
                ELSE IF ~white_to_move /\ piece_at(p, 60, B_KING) /\ piece_at(p, 56, B_ROOK)
                     /\ 57 \notin occupancy
                  THEN <<Move(60, 58, B_KING, QUEEN_CASTLE)>>
                ELSE <<>>)
          ELSE <<>>
  IN kmoves \o qmoves

append_en_passant(n) ==
  IF ~n.en_passant_possible THEN <<>>
  ELSE
    LET square == n.en_passant_square
        p == n.position
        our_pawn == color_piece(PAWN, n.white_to_move)
    IN IF n.white_to_move
         THEN (IF piece_at(p, square - 9, our_pawn) /\ square % 8 > 0
                 THEN <<Move(square - 9, square, our_pawn, CAPTURE_EP)>> ELSE <<>>)
              \o (IF piece_at(p, square - 7, our_pawn) /\ square % 8 < 7
                    THEN <<Move(square - 7, square, our_pawn, CAPTURE_EP)>> ELSE <<>>)
         ELSE (IF piece_at(p, square + 9, our_pawn) /\ square % 8 < 7
                 THEN <<Move(square + 9, square, our_pawn, CAPTURE_EP)>> ELSE <<>>)
              \o (IF piece_at(p, square + 7, our_pawn) /\ square % 8 > 0
                    THEN <<Move(square + 7, square, our_pawn, CAPTURE_EP)>> ELSE <<>>)

\* the four promotion moves, or the single plain move, to one target square
PawnTargetMoves(pw, target, our_pawn, is_capture) ==
  IF target \div 8 = 0 \/ target \div 8 = 7
    THEN (IF is_capture
            THEN << Move(pw, target, our_pawn, PROMOTE_KNIGHT_CAPTURE),
                    Move(pw, target, our_pawn, PROMOTE_BISHOP_CAPTURE),
                    Move(pw, target, our_pawn, PROMOTE_ROOK_CAPTURE),
                    Move(pw, target, our_pawn, PROMOTE_QUEEN_CAPTURE) >>
            ELSE << Move(pw, target, our_pawn, PROMOTE_KNIGHT),
                    Move(pw, target, our_pawn, PROMOTE_BISHOP),
                    Move(pw, target, our_pawn, PROMOTE_ROOK),
                    Move(pw, target, our_pawn, PROMOTE_QUEEN) >>)
    ELSE <<Move(pw, target, our_pawn, IF is_capture THEN CAPTURE ELSE QUIET)>>

\* the body of the loop over pawns in append_pawn_moves
OnePawnMoves(n, pw) ==
  LET white_to_move == n.white_to_move
      p == n.position
      our_pawn == color_piece(PAWN, white_to_move)
      opp_pieces == get_board(p, color_piece(ALL, ~white_to_move))
      all_pieces == get_board(p, BOTH_ALL)
      target == IF white_to_move THEN pw + 8 ELSE pw - 8
      push == IF target \notin all_pieces
                THEN PawnTargetMoves(pw, target, our_pawn, FALSE) ELSE <<>>
      capl == IF pw % 8 > 0 /\ (target - 1) \in opp_pieces
                THEN PawnTargetMoves(pw, target - 1, our_pawn, TRUE) ELSE <<>>
      capr == IF pw % 8 < 7 /\ (target + 1) \in opp_pieces
                THEN PawnTargetMoves(pw, target + 1, our_pawn, TRUE) ELSE <<>>
      dbl == IF (IF white_to_move THEN pw \div 8 = 1 ELSE pw \div 8 = 6)
               THEN (LET t2 == IF white_to_move THEN pw + 16 ELSE pw - 16
                         sq == IF white_to_move THEN pw + 8 ELSE pw - 8
                     IN IF all_pieces \cap {t2, sq} = {}
                          THEN <<Move(pw, t2, our_pawn, PAWN_DOUBLE)>> ELSE <<>>)
               ELSE <<>>
  IN push \o capl \o capr \o dbl

RECURSIVE Flatten(_, _)
\* the sequences ss[i], ss[i+1], ... appended in turn
Flatten(ss, i) == IF i > Len(ss) THEN <<>> ELSE ss[i] \o Flatten(ss, i + 1)

\* f(x) appended for each x of the sequence xs in turn
ConcatOver(xs, f(_)) == Flatten([i \in 1..Len(xs) |-> f(xs[i])], 1)

append_pawn_moves(n) ==
  LET pawns == SortedSeq(find_piece(n.position, color_piece(PAWN, n.white_to_move)))
      f(pw) == OnePawnMoves(n, pw)
  IN ConcatOver(pawns, f)

\* a move generator that forgets the knights
no_knight_moves(n) == <<>>

append_knight_moves(n) ==
  LET white_to_move == n.white_to_move
      p == n.position
      our_knight == color_piece(KNIGHT, white_to_move)
      occupancy == get_board(p, color_piece(ALL, white_to_move))
      opp_pieces == get_board(p, color_piece(ALL, ~white_to_move))
      f(k) == append_moves_from(k, knight_moves[k] \ occupancy, our_knight, opp_pieces)
  IN ConcatOver(SortedSeq(find_piece(p, our_knight)), f)

append_sliding_moves(n) ==
  LET white_to_move == n.white_to_move
      p == n.position
      occupancy == get_board(p, BOTH_ALL)
      our_pieces == get_board(p, color_piece(ALL, white_to_move))
      opp_pieces == get_board(p, color_piece(ALL, ~white_to_move))
      our_rook == color_piece(ROOK, white_to_move)
      our_bishop == color_piece(BISHOP, white_to_move)
      our_queen == color_piece(QUEEN, white_to_move)
      fr(r) == append_moves_from(r, rook_attack_lookup(r, occupancy) \ our_pieces,
                                 our_rook, opp_pieces)
      fb(b) == append_moves_from(b, bishop_attack_lookup(b, occupancy) \ our_pieces,
                                 our_bishop, opp_pieces)
      fq(q) == append_moves_from(q,
                 (rook_attack_lookup(q, occupancy) \cup bishop_attack_lookup(q, occupancy))
                   \ our_pieces,
                 our_queen, opp_pieces)
  IN ConcatOver(SortedSeq(find_piece(p, our_rook)), fr)
       \o ConcatOver(SortedSeq(find_piece(p, our_bishop)), fb)
       \o ConcatOver(SortedSeq(find_piece(p, our_queen)), fq)

generate_pseudolegal_moves(n) ==
  generate_king_moves(n) \o append_castling_moves(n) \o append_en_passant(n)
    \o append_pawn_moves(n) \o append_knight_moves(n) \o append_sliding_moves(n)

is_legal(m, n) ==
  get_check_board(n.white_to_move, Position_make_move(n.position, m)) = {}

generate_moves(n) ==
  SelectSeq(generate_pseudolegal_moves(n), LAMBDA m : is_legal(m, n))

\* ------------------------------------------------------------------------
\* Construction of positions and nodes (boards.cpp)
\* ------------------------------------------------------------------------
RECURSIVE PlaceAll(_, _, _)
\* place_piece called for each <<square, piece>> of pcs in turn
PlaceAll(p, pcs, i) ==
  IF i > Len(pcs) THEN p ELSE PlaceAll(place_piece(p, pcs[i][1], pcs[i][2]), pcs, i + 1)

\* Node::Node(pos, wtm, wck, wcq, bck, bcq, eps, epp, msr, ms)
Node(pos, wtm, wck, wcq, bck, bcq, eps, epp, msr, ms) ==
  [position |-> pos, white_to_move |-> wtm,
   w_castle_k |-> wck, w_castle_q |-> wcq, b_castle_k |-> bck, b_castle_q |-> bcq,
   en_passant_square |-> eps, en_passant_possible |-> epp,
   half_moves_since_reset |-> msr, moves |-> ms]

\* ------------------------------------------------------------------------
\* FEN output (boards.cpp, utils.cpp)
\* ------------------------------------------------------------------------
\* the if-chain of fen_board: the code of the first board holding the square
fen_code(p, square) ==
  IF piece_at(p, square, W_PAWN) THEN "P"
  ELSE IF piece_at(p, square, W_KNIGHT) THEN "N"
  ELSE IF piece_at(p, square, W_BISHOP) THEN "B"
  ELSE IF piece_at(p, square, W_ROOK) THEN "R"
  ELSE IF piece_at(p, square, W_QUEEN) THEN "Q"
  ELSE IF piece_at(p, square, W_KING) THEN "K"
  ELSE IF piece_at(p, square, B_PAWN) THEN "p"
  ELSE IF piece_at(p, square, B_KNIGHT) THEN "n"
  ELSE IF piece_at(p, square, B_BISHOP) THEN "b"
  ELSE IF piece_at(p, square, B_ROOK) THEN "r"
  ELSE IF piece_at(p, square, B_QUEEN) THEN "q"
  ELSE IF piece_at(p, square, B_KING) THEN "k"
  ELSE ""

RECURSIVE fen_rank(_, _, _, _)
\* the inner loop of fen_board over the files j of rank 7 - i
fen_rank(p, i, j, empty_counter) ==
  IF j >= 8
    THEN (IF empty_counter > 0 THEN ToString(empty_counter) ELSE "")
    ELSE LET code == fen_code(p, (7 - i) * 8 + j)
         IN IF code = ""
              THEN fen_rank(p, i, j + 1, empty_counter + 1)
              ELSE (IF empty_counter > 0 THEN ToString(empty_counter) ELSE "")
                     \o code \o fen_rank(p, i, j + 1, 0)

RECURSIVE fen_ranks(_, _)
fen_ranks(p, i) ==
  IF i >= 8 THEN ""
  ELSE fen_rank(p, i, 0, 0) \o (IF i < 7 THEN "/" ELSE "") \o fen_ranks(p, i + 1)

fen_board(p) == fen_ranks(p, 0)

FileLetters == <<"a", "b", "c", "d", "e", "f", "g", "h">>

int_to_algebraic(pos) ==
  IF pos < 0 \/ pos >= 64 THEN "domain_error"
  ELSE FileLetters[(pos % 8) + 1] \o ToString(1 + (pos \div 8))

fen_string(n) ==
  LET castle == (IF n.w_castle_k THEN "K" ELSE "") \o (IF n.w_castle_q THEN "Q" ELSE "")
                  \o (IF n.b_castle_k THEN "k" ELSE "") \o (IF n.b_castle_q THEN "q" ELSE "")
  IN fen_board(n.position) \o " "
       \o (IF n.white_to_move THEN "w " ELSE "b ")
       \o (IF castle = "" THEN "- " ELSE castle \o " ")
       \o (IF n.en_passant_possible
             THEN int_to_algebraic(n.en_passant_square) \o " " ELSE "- ")
       \o ToString(n.half_moves_since_reset) \o " "
       \o ToString(n.moves)

\* ------------------------------------------------------------------------
\* std::map<Position, int> repeats, ordered by Position::operator<
\* The map is a bag of entries [key, val].  Position::operator< is a valid
\* map ordering only on key sets where it is a strict weak ordering; using the
\* map with other keys is undefined behaviour: from then on a lookup may miss
\* an entry that is present, and an erase may take other entries with it.
\* ------------------------------------------------------------------------
EmptyMap == EmptyBag

MapEntries(es) == BagToSet(es)

MapKeys(es) == { e.key : e \in MapEntries(es) }

\* size()
MapSize(es) == BagCardinality(es)

\* Position::operator< restricted to the positions of S is a strict weak ordering
StrictWeak(S) ==
  /\ \A a, b \in S : ~(Position_less(a, b) /\ Position_less(b, a))
  /\ \A a, b, c \in S :
       (Position_less(a, b) /\ Position_less(b, c)) => Position_less(a, c)

\* the ordering requirement of std::map holds for an operation with key k
MapSound(es, broken, k) == ~broken /\ StrictWeak(MapKeys(es) \cup {k})

NoEntry == [key |-> EmptyPosition, val |-> 0]

\* the outcomes of find(k) / the lookup of operator[](k): the entry whose key
\* is equivalent to k, or end()
MapFind(es, broken, k) ==
  LET present == { e \in MapEntries(es) : e.key.boards = k.boards }
  IN { [found |-> TRUE, entry |-> e] : e \in present }
       \cup (IF present = {} \/ ~MapSound(es, broken, k)
               THEN { [found |-> FALSE, entry |-> NoEntry] } ELSE {})

MapInsert(es, k, v) == es (+) SetToBag({[key |-> k, val |-> v]})

\* the entry e rewritten in place with value v
MapAssign(es, e, v) ==
  (es (-) SetToBag({e})) (+) SetToBag({[key |-> e.key, val |-> v]})

\* erase(k) having found e: e is removed; with the ordering requirement broken
\* the erased range may hold other entries as well
MapErase(es, broken, e, k) ==
  LET rest == es (-) SetToBag({e})
  IN IF MapSound(es, broken, k) THEN { rest }
     ELSE { rest (-) SetToBag(X) : X \in SUBSET MapEntries(rest) }

\* if (repeats.find(p) == repeats.end()) repeats[p] = 1; else repeats[p]++;
repeats_count(es, broken, k) ==
  LET broken1 == ~MapSound(es, broken, k)
  IN { [entries |-> IF r.found THEN MapAssign(es, r.entry, r.entry.val + 1)
                    ELSE MapInsert(es, k, 1),
        broken |-> broken1] : r \in MapFind(es, broken, k) }

\* repeats[p]-- : a second operator[] lookup on the map es1, then the decrement
repeats_decrement(es1, broken1, k) ==
  { IF r.found THEN MapAssign(es1, r.entry, r.entry.val - 1)
    ELSE MapInsert(es1, k, -1) : r \in MapFind(es1, broken1, k) }

\* if (repeats[p] == 1) repeats.erase(p); else repeats[p]--;
repeats_uncount(es, broken, k) ==
  LET broken1 == ~MapSound(es, broken, k)
      after(r) ==
        IF r.found
          THEN (IF r.entry.val = 1 THEN MapErase(es, broken, r.entry, k)
                ELSE { MapAssign(es, r.entry, r.entry.val - 1) })
          ELSE repeats_decrement(MapInsert(es, k, 0), broken1, k)
  IN { [entries |-> es2, broken |-> broken1] :
         es2 \in UNION { after(r) : r \in MapFind(es, broken, k) } }

\* ------------------------------------------------------------------------
\* GameState::make_move on the node (boards.cpp)
\* ------------------------------------------------------------------------
\* a make_move that leaves every castling right as it was
keep_castling(n1, m) == n1

\* the castling update of GameState::make_move, on the node n1 whose position
\* has been moved and whose side to move is still the mover
update_castling(n1, m) ==
  LET wtm == n1.white_to_move
      from_square == m.from
  IN IF (wtm /\ (n1.w_castle_q \/ n1.w_castle_k))
          \/ (~wtm /\ (n1.b_castle_q \/ n1.b_castle_k))
       THEN (IF wtm
               THEN (IF m.piece = W_KING
                       THEN [n1 EXCEPT !.w_castle_q = FALSE, !.w_castle_k = FALSE]
                     ELSE IF m.piece = W_ROOK
                       THEN (IF from_square = 0 THEN [n1 EXCEPT !.w_castle_q = FALSE]
                             ELSE IF from_square = 7 THEN [n1 EXCEPT !.w_castle_k = FALSE]
                             ELSE n1)
                     ELSE n1)
               ELSE (IF m.piece = B_KING
                       THEN [n1 EXCEPT !.b_castle_q = FALSE, !.b_castle_k = FALSE]
                     ELSE IF m.piece = B_ROOK
                       THEN (IF from_square = 56 THEN [n1 EXCEPT !.b_castle_q = FALSE]
                             ELSE IF from_square = 63 THEN [n1 EXCEPT !.b_castle_k = FALSE]
                             ELSE n1)
                     ELSE n1))
       ELSE n1

\* the en-passant update written for a white mover only
en_passant_behind_white(n2, m, wtm) ==
  IF double_pawn_push(m)
    THEN [n2 EXCEPT !.en_passant_possible = TRUE, !.en_passant_square = m.to - 8]
    ELSE [n2 EXCEPT !.en_passant_possible = FALSE]

\* the en-passant update of GameState::make_move; wtm is the mover
update_en_passant(n2, m, wtm) ==
  IF double_pawn_push(m)
    THEN [n2 EXCEPT !.en_passant_possible = TRUE,
                    !.en_passant_square = IF wtm THEN m.to - 8 ELSE m.to + 8]
    ELSE [n2 EXCEPT !.en_passant_possible = FALSE]

\* a 50-move counter that only pawn moves reset
half_moves_pawn_only(n3, m) ==
  IF double_pawn_push(m) \/ m.piece = W_PAWN \/ m.piece = B_PAWN
    THEN [n3 EXCEPT !.half_moves_since_reset = 0]
    ELSE [n3 EXCEPT !.half_moves_since_reset = @ + 1]

\* the update of the 50-move counter in GameState::make_move
update_half_moves(n3, m) ==
  IF double_pawn_push(m) \/ capture(m) \/ m.piece = W_PAWN \/ m.piece = B_PAWN
    THEN [n3 EXCEPT !.half_moves_since_reset = 0]
    ELSE [n3 EXCEPT !.half_moves_since_reset = @ + 1]

GameState_make_move(n, m) ==
  LET wtm == n.white_to_move
      n1 == [n EXCEPT !.position = Position_make_move(n.position, m)]
      n2 == update_castling(n1, m)
      n3 == update_en_passant(n2, m, wtm)
      n4 == update_half_moves(n3, m)
      n5 == IF ~wtm THEN [n4 EXCEPT !.moves = @ + 1] ELSE n4
  IN [n5 EXCEPT !.white_to_move = ~wtm]

\* ------------------------------------------------------------------------
\* The game: a GameState under make_move / undo_move
\* ------------------------------------------------------------------------
VARIABLES
  node,            \* GameState::node
  repeats,         \* GameState::repeats, the bag of its entries
  repeats_state,   \* "sound"; "broken" once a call used the map outside its
                   \* ordering requirement; "abandoned" after one more call, where
                   \* the model stops following the GameState
  history,         \* GameState::history
  lastOp,          \* the last calls made on the GameState
  lastMove,        \* the argument of make_move, when it was the last call
  pre,             \* what was observable before the make_move last made or
                   \* just undone
  gen              \* a call of generate_moves on node: whether it was made, and
                   \* the MoveList it returned

gameVars == <<node, repeats, repeats_state, history, lastOp, lastMove, pre>>

genVars == <<gen>>

NotGenerated == [called |-> FALSE, moves |-> <<>>]

VARIABLES
  stop_signal,     \* Engine::stop_signal, shared by the three threads
  info,            \* Engine::info; pv_half is TRUE while the deque info.pv is
                   \* being replaced, score is in tenths of a pawn
  pv_lock,         \* info.pv_lock: "free" or the thread that holds it
  limits,          \* the SearchLimits parameter of Engine::start
  limits_alive,    \* whether that parameter still exists: the threads hold a
                   \* reference to it, and it dies when Engine::start returns
  main_pc,         \* the front-end thread: where it is in start / stop
  search,          \* the work thread: the locals of BasicAlphaBetaSearcher::search,
                   \* the stack of alpha_beta frames and the searcher's
                   \* principle_variation
  reporter,        \* the timer thread: where it is in report, and its locals
  observed         \* history of the search: whether a node returned the stop
                   \* sentinel, and what the last iteration that completed
                   \* before that had committed

engineVars ==
  <<stop_signal, info, pv_lock, limits, limits_alive, main_pc, search, reporter, observed>>

VARIABLES
  perft,           \* a call of perft(depth, start) of the move generator's test
                   \* program: where it is, the stack of its calls (for each
                   \* the depth, the MoveList, the index of the move being
                   \* tried and the count n so far) and the value returned
  edit,            \* a Position under place_piece / remove_piece calls: the
                   \* Position, the last call made on it with its arguments,
                   \* the Position before that call, and the number of calls
  evals,           \* the test of the evaluator: the values evaluate_position
                   \* returned for node and for its colour-mirrored counterpart
  order,           \* a search node whose moves go through MoveOrdering: the
                   \* priority queue as the heap it is, the moves visited so
                   \* far, the PV hint, and how the node ended
  mag,             \* one call of generate_magic: its arguments, the candidate
                   \* it rejected last, and the Magic it returned with its
                   \* attack_table
  uci              \* main of the UCI front end: where it is, its local
                   \* boards_initialized, the attack tables of the move
                   \* generator (rook_magics / bishop_magics and the malloc'ed
                   \* attack_table arrays they point to), whether a search
                   \* is running, and what was counted along the way

driverVars == <<perft, uci, edit, evals, order, mag>>

PerftIdle == [pc |-> "idle", depth |-> 0, stack |-> <<>>, value |-> 0]

\* main before its first command.  The magics are objects of static storage:
\* zero until movegen_initialize_attack_boards writes them, so every
\* attack_table is a null pointer.
MainStart ==
  [pc |-> "loop", boards_initialized |-> FALSE, magics |-> "zero",
   allocated |-> 0, init_calls |-> 0, free_calls |-> 0, reinit |-> FALSE,
   session |-> "none", generated |-> 0, uninit_read |-> FALSE]

\* Position p; before any call on it
NoEdit == [p |-> EmptyPosition, op |-> "none", pos |-> 0, piece |-> 0,
           before |-> EmptyPosition, calls |-> 0]

NotEvaluated == [called |-> FALSE, s1 |-> 0, s2 |-> 0]

\* generate_magic has not been called
NoMagic == [pc |-> "idle", square |-> 0, is_rook |-> FALSE, shift |-> 0,
            rejected |-> <<>>, magic |-> <<>>, attack_table |-> <<>>]

\* no node has been ordered: an empty queue, no hint
NoOrder == [pc |-> "idle", heap |-> <<>>, visited |-> <<>>, hint |-> <<>>, absent |-> 0]

DriversIdle ==
  /\ perft = PerftIdle /\ uci = MainStart /\ edit = NoEdit /\ evals = NotEvaluated
  /\ order = NoOrder
  /\ mag = NoMagic

\* GameState("r3k3/p7/8/8/8/8/7P/4K2R w Kq - 0 1")
CastleStartA ==
  Node(PlaceAll(EmptyPosition,
          << <<56, 10>>, <<60, 12>>, <<48, 7>>, <<15, 0>>, <<4, 5>>, <<7, 3>> >>, 1),
       TRUE, TRUE, FALSE, FALSE, TRUE, 0, FALSE, 0, 1)

\* GameState("4k2r/7p/8/8/8/8/P7/R3K3 w Qk - 0 1")
CastleStartB ==
  Node(PlaceAll(EmptyPosition,
          << <<60, 12>>, <<63, 10>>, <<55, 7>>, <<8, 0>>, <<0, 3>>, <<4, 5>> >>, 1),
       TRUE, FALSE, TRUE, TRUE, FALSE, 0, FALSE, 0, 1)

\* GameState("7k/8/8/8/8/6n1/7P/4K2R b K - 0 1")
RookCaptureStart ==
  Node(PlaceAll(EmptyPosition,
          << <<63, 12>>, <<22, 8>>, <<15, 0>>, <<4, 5>>, <<7, 3>> >>, 1),
       FALSE, TRUE, FALSE, FALSE, FALSE, 0, FALSE, 0, 1)

\* GameState("k7/8/8/8/1p6/8/P7/7K w - - 0 1")
EnPassantStart ==
  Node(PlaceAll(EmptyPosition,
          << <<56, 12>>, <<25, 7>>, <<8, 0>>, <<7, 5>> >>, 1),
       TRUE, FALSE, FALSE, FALSE, FALSE, 0, FALSE, 0, 1)

\* GameState("1n6/P6k/8/8/8/8/8/K7 w - - 0 1")
PromotionStart ==
  Node(PlaceAll(EmptyPosition,
          << <<57, 8>>, <<48, 0>>, <<55, 12>>, <<0, 5>> >>, 1),
       TRUE, FALSE, FALSE, FALSE, FALSE, 0, FALSE, 0, 1)

StartNodes ==
  {CastleStartA, CastleStartB, RookCaptureStart, EnPassantStart, PromotionStart}

\* what a caller can observe of a GameState
Observe(n, es, h) == [fen |-> fen_string(n), repeats |-> es, hlen |-> Len(h)]

\* the bounds of the model on the map
MapInBounds(es) ==
  /\ MapSize(es) <= MaxEntries
  /\ \A e \in MapEntries(es) : e.val >= -MaxEntries /\ e.val <= MaxEntries

NoMove == Move(0, 0, 0, 0)

NoObservation == [fen |-> "", repeats |-> EmptyMap, hlen |-> 0]

\* -std::numeric_limits<double>::max()
NegInf == -1000000

\* std::numeric_limits<unsigned>::max(), as the largest node count TLC can
\* hold: no search of the model counts that many nodes
UnsignedMax == 2147483647

\* an empty std::optional<unsigned>
Nullopt == -1

\* SearchLimits(depth_limit, timeout, node_limit, mate_in, moves): timeout is
\* whether a movetime was given, has_moves whether moves holds a MoveList
Limits(d, t, nl, mi, hm, mv) ==
  [depth_limit |-> d, timeout |-> t, node_limit |-> nl, mate_in |-> mi,
   has_moves |-> hm, moves |-> mv]

NoLimits == Limits(0, FALSE, Nullopt, Nullopt, FALSE, <<>>)

SearchIdle ==
  [pc |-> "idle", ml |-> <<>>, max_depth |-> 0, max_nodes |-> 0, depth |-> 0,
   best_score |-> 0, best_move |-> NoMove, best_pv |-> <<>>,
   outer_best_score |-> 0, outer_best_move |-> NoMove, queue |-> {}, m |-> NoMove,
   stack |-> <<>>, principle_variation |-> <<>>,
   result |-> [score |-> 0, move |-> NoMove]]

\* given: the go command gave a movetime; passed: at the last reading of the
\* clock the elapsed time was above it
ReportIdle ==
  [pc |-> "idle", stop |-> FALSE, flag |-> FALSE, given |-> FALSE, passed |-> FALSE]

NothingCommitted == [valid |-> FALSE, score |-> 0, move |-> NoMove, pv |-> <<>>, depth |-> 0]

\* the Engine as constructed, before any go command
EngineIdle ==
  /\ stop_signal = FALSE
  /\ info = [score |-> 0, depth |-> 0, nodes |-> 0, pv |-> <<>>, pv_half |-> FALSE]
  /\ pv_lock = "free"
  /\ limits = NoLimits
  /\ limits_alive = FALSE
  /\ main_pc = "idle"
  /\ search = SearchIdle
  /\ reporter = ReportIdle
  /\ observed = [sentinel |-> FALSE, completed |-> NothingCommitted]

NextMapState(st, broken) ==
  IF st = "sound" THEN (IF broken THEN "broken" ELSE "sound") ELSE "abandoned"

InitGame ==
  /\ node \in StartNodes
  /\ repeats = EmptyMap
  /\ repeats_state = "sound"
  /\ history = <<>>
  /\ lastOp = "none"
  /\ lastMove = NoMove
  /\ pre = NoObservation
  /\ gen = NotGenerated
  /\ EngineIdle
  /\ DriversIdle

\* g.make_move(m) for a move m of generate_moves(g)
MakeMove ==
  /\ Len(history) < MaxPly
  /\ repeats_state # "abandoned"
  /\ LET ml == generate_moves(node)
     IN \E i \in 1..Len(ml) :
          LET m == ml[i]
              n1 == GameState_make_move(node, m)
          IN \E out \in repeats_count(repeats, repeats_state # "sound", n1.position) :
               /\ MapInBounds(out.entries)
               /\ history' = Append(history, node)
               /\ node' = n1
               /\ repeats' = out.entries
               /\ repeats_state' = NextMapState(repeats_state, out.broken)
               /\ lastMove' = m
  /\ lastOp' = "make"
  /\ pre' = Observe(node, repeats, history)
  /\ UNCHANGED <<genVars, driverVars, engineVars>>

\* g.undo_move()
UndoMove ==
  /\ Len(history) > 0
  /\ repeats_state # "abandoned"
  /\ \E out \in repeats_uncount(repeats, repeats_state # "sound", node.position) :
       /\ MapInBounds(out.entries)
       /\ repeats' = out.entries
       /\ repeats_state' = NextMapState(repeats_state, out.broken)
  /\ node' = history[Len(history)]
  /\ history' = SubSeq(history, 1, Len(history) - 1)
  /\ lastOp' = IF lastOp = "make" THEN "make_undo" ELSE "undo"
  /\ lastMove' = NoMove
  /\ pre' = IF lastOp = "make" THEN pre ELSE NoObservation
  /\ UNCHANGED <<genVars, driverVars, engineVars>>

vars == <<gameVars, genVars, engineVars, driverVars>>

Init == InitGame

Next == MakeMove \/ UndoMove

Spec == Init /\ [][Next]_vars

\* ------------------------------------------------------------------------
\* Properties of the game
\* ------------------------------------------------------------------------
\* the node the last make_move started from
prev == history[Len(history)]

\* C1: for every reachable GameState g and every move m of generate_moves(g),
\* g.make_move(m) followed at once by g.undo_move() restores g exactly: the
\* FEN string, the repetition map and the length of the undo history are what
\* they were before the make_move.
C1_MakeUndoRestores ==
  lastOp = "make_undo" => Observe(node, repeats, history) = pre

\* the aggregate boards as the union of their constituents
WhiteKinds == {W_PAWN, W_KNIGHT, W_BISHOP, W_ROOK, W_QUEEN, W_KING}

BlackKinds == {B_PAWN, B_KNIGHT, B_BISHOP, B_ROOK, B_QUEEN, B_KING}

\* C7: in every state reached by make_move and undo_move calls from a
\* well-formed position, for each of the twelve piece kinds k the bits of
\* boards[k] are exactly the squares of piece_sets[k]; white-all, black-all and
\* both-all are the OR of their constituent piece boards; and no two piece
\* kinds hold the same square.
C7_BoardsConsistent ==
  LET p == node.position
  IN /\ \A k \in PieceKinds : \A sq \in Squares :
          (sq \in p.boards[k]) <=> (sq \in p.piece_sets[k])
     /\ p.boards[W_ALL] = UNION { p.boards[k] : k \in WhiteKinds }
     /\ p.boards[B_ALL] = UNION { p.boards[k] : k \in BlackKinds }
     /\ p.boards[BOTH_ALL] = UNION { p.boards[k] : k \in PieceKinds }
     /\ \A k1, k2 \in PieceKinds : k1 # k2 => p.boards[k1] \cap p.boards[k2] = {}

\* C7 witness: a capture, a castling move, an en-passant capture or a promotion
\* has just been made (the moves that touch two pieces or change the kind)
C7_Witness ==
  /\ lastOp = "make"
  /\ capture(lastMove) /\ lastMove.flags = PROMOTE_QUEEN_CAPTURE
  /\ Len(history) = 1

\* C9: after make_move(m) where m captures an enemy rook standing on its home
\* corner, the victim's castling right for that side is false.
C9_RookCaptureClearsRight ==
  (lastOp = "make" /\ capture(lastMove) /\ ~capture_ep(lastMove)) =>
     /\ (lastMove.to = 0 /\ piece_at(prev.position, 0, W_ROOK)) => ~node.w_castle_q
     /\ (lastMove.to = 7 /\ piece_at(prev.position, 7, W_ROOK)) => ~node.w_castle_k
     /\ (lastMove.to = 56 /\ piece_at(prev.position, 56, B_ROOK)) => ~node.b_castle_q
     /\ (lastMove.to = 63 /\ piece_at(prev.position, 63, B_ROOK)) => ~node.b_castle_k

Rights == {"w_castle_k", "w_castle_q", "b_castle_k", "b_castle_q"}

\* the rights the claim says a move m made from node n clears
ClearedBy(n, m) ==
  IF n.white_to_move
    THEN (IF m.piece = W_KING THEN {"w_castle_k", "w_castle_q"}
          ELSE IF m.piece = W_ROOK /\ m.from = 0 THEN {"w_castle_q"}
          ELSE IF m.piece = W_ROOK /\ m.from = 7 THEN {"w_castle_k"}
          ELSE {})
    ELSE (IF m.piece = B_KING THEN {"b_castle_k", "b_castle_q"}
          ELSE IF m.piece = B_ROOK /\ m.from = 56 THEN {"b_castle_q"}
          ELSE IF m.piece = B_ROOK /\ m.from = 63 THEN {"b_castle_k"}
          ELSE {})

\* C10: after make_move(m), a king move (castling included) leaves both rights
\* of the mover false, a rook move from its home corner leaves the mover's
\* right for that side false, every other right has its previous value, and no
\* right goes from false to true.
C10_CastlingRights ==
  lastOp = "make" =>
    \A r \in Rights :
      /\ r \in ClearedBy(prev, lastMove) => ~node[r]
      /\ r \notin ClearedBy(prev, lastMove) => node[r] = prev[r]
      /\ node[r] => prev[r]

\* C10 witness: a rook has left its home corner with that right set, the right
\* is now false and the mover's other right and the opponent's right stand
C10_Witness ==
  /\ lastOp = "make"
  /\ lastMove.piece = B_ROOK /\ lastMove.from = 63
  /\ prev.b_castle_k /\ ~node.b_castle_k
  /\ prev.w_castle_q /\ node.w_castle_q

\* ------------------------------------------------------------------------
\* The move generator on its own: generate_moves called on a GameState built
\* from a FEN string
\* ------------------------------------------------------------------------
\* the same square and piece seen from the other side of the board
Mirror(sq) == 8 * (7 - (sq \div 8)) + (sq % 8)

MirrorPiece(k) == IF k < 7 THEN k + 7 ELSE k - 7

\* pcs as given when white is the side to move, mirrored when black is
ForSide(wtm, pcs) ==
  [i \in 1..Len(pcs) |->
     IF wtm THEN pcs[i] ELSE <<Mirror(pcs[i][1]), MirrorPiece(pcs[i][2])>>]

\* GameState(fen) for the board holding pcs, the side to move having the
\* castling rights rk (kingside) and rq (queenside) and the other side none
FenNode(wtm, pcs, rk, rq) ==
  Node(PlaceAll(EmptyPosition, ForSide(wtm, pcs), 1), wtm,
       wtm /\ rk, wtm /\ rq, ~wtm /\ rk, ~wtm /\ rq, 0, FALSE, 0, 1)

\* own knights on the home rank between king and rooks
Blockers == { << <<sq, W_KNIGHT>> >> : sq \in {1, 2, 3, 5, 6} }

\* one enemy piece on the second to fifth rank
Attackers ==
  { << <<sq, k>> >> :
      sq \in 8..39, k \in {B_PAWN, B_KNIGHT, B_BISHOP, B_ROOK, B_QUEEN} }

RookSets ==
  { <<>>, << <<0, W_ROOK>> >>, << <<7, W_ROOK>> >>, << <<0, W_ROOK>>, <<7, W_ROOK>> >> }

\* both kings at home, the mover's rooks on none, one or both corners, any
\* castling rights, and one blocker or attacker or neither; and the same with
\* the mover's king off its home square
CastleNodes ==
  { FenNode(wtm, << <<4, W_KING>>, <<60, B_KING>> >> \o rooks \o extra, rk, rq) :
      wtm \in BOOLEAN, rooks \in RookSets, rk \in BOOLEAN, rq \in BOOLEAN,
      extra \in {<<>>} \cup Blockers \cup Attackers }
  \cup
  { FenNode(wtm, << <<3, W_KING>>, <<60, B_KING>> >> \o rooks, rk, rq) :
      wtm \in BOOLEAN, rooks \in RookSets, rk \in BOOLEAN, rq \in BOOLEAN }

\* a king in the middle of the board or on its far rank, an own pawn on its
\* start square and an enemy pawn on a square diagonal to the king or away
KingPawnNodes ==
  { FenNode(wtm, << <<ksq, W_KING>>, <<0, B_KING>>, <<15, W_PAWN>>, <<psq, B_PAWN>> >>,
            FALSE, FALSE) :
      wtm \in BOOLEAN, ksq \in {36, 60}, psq \in {27, 29, 43, 45, 51, 53} }

\* files of the en-passant target: the a-file, a middle file and the h-file
EpFiles == {0, 3, 7}

\* an enemy rook on the rank of the two pawns, or an enemy pawn beside the
\* far-rank square of the mover's king, or neither
EpExtras == { <<>>, << <<39, B_ROOK>> >>, << <<51, B_PAWN>> >>, << <<53, B_PAWN>> >> }

\* the squares an en-passant capturer is looked for on, as append_en_passant
\* indexes them
EpPawnSets(t) ==
  { <<>>, << <<t - 9, W_PAWN>> >>, << <<t - 7, W_PAWN>> >>,
    << <<t - 9, W_PAWN>>, <<t - 7, W_PAWN>> >> }

Distinct(pcs) == \A i, j \in 1..Len(pcs) : pcs[i][1] = pcs[j][1] => i = j

\* GameState(fen) for the board holding pcs, where the other side has just
\* pushed a pawn two squares over the square ep (given as white sees it); the
\* en-passant field of the FEN is that square when epp and "-" otherwise
EpNode(wtm, pcs, ep, epp) ==
  Node(PlaceAll(EmptyPosition, ForSide(wtm, pcs), 1), wtm, FALSE, FALSE, FALSE, FALSE,
       IF epp THEN (IF wtm THEN ep ELSE Mirror(ep)) ELSE 0, epp, 0, 1)

\* the boards for the target on file tf: an enemy pawn just behind the target,
\* own pawns on none, one or both of the squares nine and seven before it, the
\* mover's king at home, on the pawns' rank or on its far rank
EpBoards(tf) ==
  { pcs \in { << <<ksq, W_KING>>, <<0, B_KING>>, <<32 + tf, B_PAWN>> >> \o pawns \o extra :
                ksq \in {4, 32, 60}, pawns \in EpPawnSets(40 + tf), extra \in EpExtras } :
      Distinct(pcs) }

EnPassantNodes ==
  UNION { { EpNode(wtm, pcs, 40 + tf, epp) :
              wtm \in BOOLEAN, epp \in BOOLEAN, pcs \in EpBoards(tf) } : tf \in EpFiles }

GenNodes == CastleNodes \cup KingPawnNodes \cup EnPassantNodes

InitGen ==
  /\ node \in GenNodes
  /\ repeats = EmptyMap
  /\ repeats_state = "sound"
  /\ history = <<>>
  /\ lastOp = "none"
  /\ lastMove = NoMove
  /\ pre = NoObservation
  /\ gen = NotGenerated
  /\ EngineIdle
  /\ DriversIdle

\* MoveList ml = generate_moves(gs)
Generate ==
  /\ ~gen.called
  /\ gen' = [called |-> TRUE, moves |-> generate_moves(node)]
  /\ UNCHANGED <<gameVars, engineVars, driverVars>>

NextGen == Generate

SpecGen == InitGen /\ [][NextGen]_vars

\* ------------------------------------------------------------------------
\* The rules of chess, stated on squares: what the claims about the move
\* generator are measured against
\* ------------------------------------------------------------------------
Abs(x) == IF x < 0 THEN -x ELSE x

Rank(sq) == sq \div 8

File(sq) == sq % 8

\* the squares strictly between two squares of one rank, file or diagonal
Between(a, b) ==
  { sq \in Squares :
      /\ sq # a /\ sq # b
      /\ \/ Rank(a) = Rank(b) /\ Rank(sq) = Rank(a)
         \/ File(a) = File(b) /\ File(sq) = File(a)
         \/ /\ Rank(a) - Rank(b) = File(a) - File(b)
            /\ Rank(sq) - Rank(a) = File(sq) - File(a)
         \/ /\ Rank(a) - Rank(b) = File(b) - File(a)
            /\ Rank(sq) - Rank(a) = File(a) - File(sq)
      /\ (Rank(a) <= Rank(sq) /\ Rank(sq) <= Rank(b))
           \/ (Rank(b) <= Rank(sq) /\ Rank(sq) <= Rank(a))
      /\ (File(a) <= File(sq) /\ File(sq) <= File(b))
           \/ (File(b) <= File(sq) /\ File(sq) <= File(a)) }

\* the piece of colourless kind on from attacks to, the board being occupied
\* on the squares occ
RuleAttacks(kind, is_white, from, to, occ) ==
  LET dr == Rank(to) - Rank(from)
      df == File(to) - File(from)
      straight == (dr = 0 \/ df = 0) /\ Between(from, to) \cap occ = {}
      diagonal == Abs(dr) = Abs(df) /\ Between(from, to) \cap occ = {}
  IN /\ from # to
     /\ CASE kind = PAWN -> Abs(df) = 1 /\ dr = (IF is_white THEN 1 ELSE -1)
          [] kind = KNIGHT -> {Abs(dr), Abs(df)} = {1, 2}
          [] kind = BISHOP -> diagonal
          [] kind = ROOK -> straight
          [] kind = QUEEN -> straight \/ diagonal
          [] kind = KING -> Abs(dr) <= 1 /\ Abs(df) <= 1

\* square sq is attacked by a piece of the side by_white in position p
RuleAttacked(p, sq, by_white) ==
  \E kind \in {PAWN, KNIGHT, BISHOP, ROOK, QUEEN, KING} :
    \E from \in p.boards[color_piece(kind, by_white)] :
      RuleAttacks(kind, by_white, from, sq, p.boards[BOTH_ALL])

\* after move m from node n the mover's king is not attacked
KingSafeAfter(n, m) ==
  LET p == Position_make_move(n.position, m)
      ksq == CHOOSE sq \in Squares : sq \in p.boards[color_piece(KING, n.white_to_move)]
  IN ~RuleAttacked(p, ksq, ~n.white_to_move)

InSeq(x, xs) == \E i \in 1..Len(xs) : xs[i] = x

\* C2: every move returned by generate_moves(gs) leaves the mover's king
\* unattacked under the rules of chess, and every pseudo-legal move that
\* leaves the mover's king unattacked is returned.
C2_StrictlyLegal ==
  gen.called =>
    /\ \A i \in 1..Len(gen.moves) : KingSafeAfter(node, gen.moves[i])
    /\ LET pl == generate_pseudolegal_moves(node)
       IN \A i \in 1..Len(pl) : KingSafeAfter(node, pl[i]) => InSeq(pl[i], gen.moves)

\* what the rules ask of castling by the side to move of n: the right, king
\* and rook at home, the squares between them empty, and the king's start,
\* pass-through and destination squares unattacked
MayCastle(n, kingside) ==
  LET w == n.white_to_move
      p == n.position
      home == IF w THEN 4 ELSE 60
      corner == IF kingside THEN home + 3 ELSE home - 4
      dest == IF kingside THEN home + 2 ELSE home - 2
      right == IF w THEN (IF kingside THEN n.w_castle_k ELSE n.w_castle_q)
               ELSE (IF kingside THEN n.b_castle_k ELSE n.b_castle_q)
  IN /\ right
     /\ home \in p.boards[color_piece(KING, w)]
     /\ corner \in p.boards[color_piece(ROOK, w)]
     /\ Between(home, corner) \cap p.boards[BOTH_ALL] = {}
     /\ \A sq \in {home, dest} \cup Between(home, dest) : ~RuleAttacked(p, sq, ~w)

CastleMove(n, kingside) ==
  LET home == IF n.white_to_move THEN 4 ELSE 60
  IN Move(home, IF kingside THEN home + 2 ELSE home - 2,
          color_piece(KING, n.white_to_move),
          IF kingside THEN KING_CASTLE ELSE QUEEN_CASTLE)

\* C8: generate_moves(gs) holds the KING_CASTLE (QUEEN_CASTLE) move of the
\* side to move if and only if that side has the right, its king and rook are
\* at home, every square between them is empty (the b-file square included on
\* the queenside) and the king's start, pass-through and destination squares
\* are unattacked; an attack on the b-file square alone does not matter.
C8_CastlingGenerated ==
  gen.called =>
    /\ \A kingside \in BOOLEAN :
         InSeq(CastleMove(node, kingside), gen.moves) <=> MayCastle(node, kingside)
    /\ \A i \in 1..Len(gen.moves) :
         (castle_kingside(gen.moves[i]) \/ castle_queenside(gen.moves[i]))
           => gen.moves[i] \in {CastleMove(node, TRUE), CastleMove(node, FALSE)}

\* C8 witness: queenside castling was generated although the b-file square is
\* attacked, in a position where kingside castling was refused
C8_Witness ==
  /\ gen.called
  /\ InSeq(CastleMove(node, FALSE), gen.moves)
  /\ RuleAttacked(node.position, IF node.white_to_move THEN 1 ELSE 57,
                  ~node.white_to_move)
  /\ ~InSeq(CastleMove(node, TRUE), gen.moves)
  /\ node.w_castle_k /\ piece_at(node.position, 7, W_ROOK)


\* the pawns of the side to move that may capture en passant under the rules
\* of chess: on the rank the enemy pawn stands on, on a file next to the
\* target's, and such that with the capturer on the target and the enemy pawn
\* gone no enemy piece attacks the mover's king
EpCapturers(n) ==
  LET w == n.white_to_move
      p == n.position
      t == n.en_passant_square
      victim == IF w THEN t - 8 ELSE t + 8
      ksq == CHOOSE sq \in Squares : sq \in p.boards[color_piece(KING, w)]
  IN IF ~n.en_passant_possible THEN {}
     ELSE { from \in p.boards[color_piece(PAWN, w)] :
              /\ RuleAttacks(PAWN, w, from, t, {})
              /\ \A kind \in {PAWN, KNIGHT, BISHOP, ROOK, QUEEN, KING} :
                   \A sq \in p.boards[color_piece(kind, ~w)] \ {victim} :
                     ~RuleAttacks(kind, ~w, sq, ksq,
                                  (p.boards[BOTH_ALL] \ {from, victim}) \cup {t}) }

EpMovesOf(ml) == { ml[i] : i \in { k \in 1..Len(ml) : capture_ep(ml[k]) } }

\* C11: the CAPTURE_EP moves returned by generate_moves(gs) are exactly the
\* captures onto the en-passant target by the pawns of the side to move that
\* stand diagonally behind it (no wrap-around over the a- and h-files) and
\* whose capture leaves their own king unattacked; none when no target is set.
C11_EnPassantGenerated ==
  gen.called =>
    EpMovesOf(gen.moves) =
      { Move(from, node.en_passant_square, color_piece(PAWN, node.white_to_move), CAPTURE_EP) :
          from \in EpCapturers(node) }


\* the squares holding a piece of the side by_white that attacks target under
\* the rules of chess, the board being occupied on the squares occ
RuleAttackers(p, target, by_white, occ) ==
  { sq \in Squares :
      \E kind \in {PAWN, KNIGHT, BISHOP, ROOK, QUEEN, KING} :
        /\ sq \in p.boards[color_piece(kind, by_white)]
        /\ RuleAttacks(kind, by_white, sq, target, occ) }

\* C12: get_attacks_to(pos, target, white_to_move, occupancy) is exactly the
\* set of squares holding pieces of the opposing colour that attack target
\* under the rules of chess, for every target square, the first and last rank
\* and the a- and h-files included; so in_check(side, pos) is true if and only
\* if that side's king is attacked.
C12_AttacksExact ==
  gen.called =>
    LET p == node.position
        occ == get_board(p, BOTH_ALL)
    IN /\ \A w \in BOOLEAN : \A target \in Squares :
            get_attacks_to(p, target, w, occ) = RuleAttackers(p, target, ~w, occ)
       /\ \A w \in BOOLEAN :
            in_check(w, p) <=>
              RuleAttacked(p, Min(find_piece(p, color_piece(KING, w))), ~w)


\* ------------------------------------------------------------------------
\* perft of the move generator's test program: the number of leaves of the
\* make_move / generate_moves / undo_move tree.  perft reads nothing of the
\* repetition map of its GameState, which this specification stops following
\* at the first make_move.
\* ------------------------------------------------------------------------
\* GameState("rnbqkbnr/pppppppp/8/8/8/8/PPPPPPPP/RNBQKBNR w KQkq - 0 1")
DefaultStart ==
  Node(PlaceAll(EmptyPosition,
         << <<56, 10>>, <<57, 8>>, <<58, 9>>, <<59, 11>>, <<60, 12>>, <<61, 9>>, <<62, 8>>, <<63, 10>>,
            <<48, 7>>, <<49, 7>>, <<50, 7>>, <<51, 7>>, <<52, 7>>, <<53, 7>>, <<54, 7>>, <<55, 7>>,
            <<8, 0>>, <<9, 0>>, <<10, 0>>, <<11, 0>>, <<12, 0>>, <<13, 0>>, <<14, 0>>, <<15, 0>>,
            <<0, 3>>, <<1, 1>>, <<2, 2>>, <<3, 4>>, <<4, 5>>, <<5, 2>>, <<6, 1>>, <<7, 3>> >>, 1),
       TRUE, TRUE, TRUE, TRUE, TRUE, 0, FALSE, 0, 1)

\* the depths the test calls perft with
PerftDepths == 1..4

\* a call of perft of at most this depth is followed as one step
AtomicDepth == 2

RECURSIVE perft_value(_, _)
RECURSIVE perft_loop(_, _, _, _, _)
\* the value perft(depth, start) returns, start being at node n
perft_value(n, depth) ==
  IF depth = 0 THEN 1
  ELSE perft_loop(n, generate_moves(n), 1, Len(generate_moves(n)), depth)

\* for (const Move& m : moves) { start.make_move(m); n += perft(depth - 1, start);
\* start.undo_move(); } over the moves lo .. hi of the list: the sum of the
\* values of the moves, added up by halves of the range
perft_loop(n, moves, lo, hi, depth) ==
  IF lo > hi THEN 0
  ELSE IF lo = hi THEN perft_value(GameState_make_move(n, moves[lo]), depth - 1)
  ELSE perft_loop(n, moves, lo, (lo + hi) \div 2, depth)
         + perft_loop(n, moves, (lo + hi) \div 2 + 1, hi, depth)

InitPerft ==
  /\ node = DefaultStart
  /\ repeats = EmptyMap
  /\ repeats_state = "sound"
  /\ history = <<>>
  /\ lastOp = "none"
  /\ lastMove = NoMove
  /\ pre = NoObservation
  /\ gen = NotGenerated
  /\ EngineIdle
  /\ DriversIdle

\* CHECK(perft(depth, gs) == ...): the call
PerftBegin ==
  /\ perft.pc = "idle"
  /\ \E depth \in PerftDepths : perft' = [perft EXCEPT !.pc = "call", !.depth = depth]
  /\ UNCHANGED <<gameVars, genVars, engineVars, uci, edit, evals, order, mag>>

\* entry of perft(depth, start): a call of small depth runs to its return, a
\* deeper one generates its moves
PerftCall ==
  /\ perft.pc = "call"
  /\ LET k == Len(perft.stack)
         depth == IF k = 0 THEN perft.depth ELSE perft.stack[k].depth - 1
     IN perft' =
          IF depth <= AtomicDepth
            THEN [perft EXCEPT !.pc = "return", !.value = perft_value(node, depth)]
            ELSE [perft EXCEPT !.pc = "loop",
                               !.stack = Append(@, [depth |-> depth, moves |-> generate_moves(node),
                                                    i |-> 1, n |-> 0])]
  /\ UNCHANGED <<gameVars, genVars, engineVars, uci, edit, evals, order, mag>>

\* the head of the loop: start.make_move(m) and the call of perft(depth - 1,
\* start), or return n
PerftLoop ==
  /\ perft.pc = "loop"
  /\ LET k == Len(perft.stack)
         f == perft.stack[k]
     IN IF f.i > Len(f.moves)
          THEN /\ perft' = [perft EXCEPT !.pc = "return", !.value = f.n,
                                         !.stack = SubSeq(@, 1, k - 1)]
               /\ UNCHANGED <<node, history, repeats_state>>
          ELSE /\ node' = GameState_make_move(node, f.moves[f.i])
               /\ history' = Append(history, node)
               /\ repeats_state' = "abandoned"
               /\ perft' = [perft EXCEPT !.pc = "call"]
  /\ UNCHANGED <<repeats, lastOp, lastMove, pre, genVars, engineVars, uci, edit, evals, order, mag>>

\* the return of a call: to the test, or to the calling perft, which does
\* n += p and start.undo_move()
PerftReturn ==
  /\ perft.pc = "return"
  /\ LET k == Len(perft.stack)
     IN IF k = 0
          THEN /\ perft' = [perft EXCEPT !.pc = "done"]
               /\ UNCHANGED <<node, history>>
          ELSE /\ perft' = [perft EXCEPT !.pc = "loop",
                                         !.stack[k].n = @ + perft.value,
                                         !.stack[k].i = @ + 1]
               /\ node' = history[Len(history)]
               /\ history' = SubSeq(history, 1, Len(history) - 1)
  /\ UNCHANGED <<repeats, repeats_state, lastOp, lastMove, pre, genVars, engineVars, uci, edit, evals, order, mag>>

NextPerft == PerftBegin \/ PerftCall \/ PerftLoop \/ PerftReturn

SpecPerft == InitPerft /\ [][NextPerft]_vars

\* C13: perft from the standard start position is 20 at depth 1, 400 at depth
\* 2, 8902 at depth 3 and 197281 at depth 4.
C13_PerftStart ==
  perft.pc = "done" =>
    perft.value = CASE perft.depth = 1 -> 20
                    [] perft.depth = 2 -> 400
                    [] perft.depth = 3 -> 8902
                    [] perft.depth = 4 -> 197281

\* C13 witness: perft(4, gs) has returned 197281 to the test
C13_Witness ==
  /\ perft.pc = "done"
  /\ perft.depth = 4
  /\ perft.value = 197281
  /\ node = DefaultStart
  /\ history = <<>>

\* ------------------------------------------------------------------------
\* Evaluation (evaluation.cpp).  Scores are kept in tenths of a pawn, so that
\* 0.1, 0.5, 1.0, 3.0, 5.0 and 9.0 are the integers 1, 5, 10, 30, 50 and 90.
\* ------------------------------------------------------------------------
\* gs.flip_move()
flip_move(n) == [n EXCEPT !.white_to_move = ~n.white_to_move]

\* the number of pawns of the squares pawns on file i
PawnsOnFile(pawns, i) == Cardinality({ sq \in pawns : sq % 8 = i })

\* the doubled and isolated pawn penalties of one side, in tenths
StructurePenalty(pawns) ==
  LET doubled == { i \in 0..7 : PawnsOnFile(pawns, i) >= 2 }
      isolated == { i \in 0..7 :
                      /\ PawnsOnFile(pawns, i) >= 1
                      /\ (i = 0 \/ PawnsOnFile(pawns, i - 1) = 0)
                      /\ (i = 7 \/ PawnsOnFile(pawns, i + 1) = 0) }
  IN 5 * Cardinality(doubled) + 5 * Cardinality(isolated)

\* BasicEvaluator::evaluate_position, from white's point of view
evaluate_position(n) ==
  LET count(k) == Cardinality(find_piece(n.position, k))
      material_score ==
        90 * (count(W_QUEEN) - count(B_QUEEN)) + 50 * (count(W_ROOK) - count(B_ROOK))
          + 30 * (count(W_BISHOP) - count(B_BISHOP))
          + 30 * (count(W_KNIGHT) - count(B_KNIGHT))
          + 10 * (count(W_PAWN) - count(B_PAWN))
      to_move_mobility == Len(generate_moves(n))
      other_mobility == Len(generate_moves(flip_move(n)))
      white_mobility == IF n.white_to_move THEN to_move_mobility ELSE other_mobility
      black_mobility == IF n.white_to_move THEN other_mobility ELSE to_move_mobility
      mobility_score == white_mobility - black_mobility
      bishop_pair_score ==
        5 * ((IF count(W_BISHOP) = 2 THEN 1 ELSE 0) - (IF count(B_BISHOP) = 2 THEN 1 ELSE 0))
      structure_score ==
        StructurePenalty(find_piece(n.position, B_PAWN))
          - StructurePenalty(find_piece(n.position, W_PAWN))
  IN material_score + mobility_score + bishop_pair_score + structure_score

\* ------------------------------------------------------------------------
\* The search (search.cpp).  A configuration c of the work thread is its
\* locals c.s and the GameState c.g it searches on; an operator below gives
\* the configurations in which the thread next touches stop_signal or
\* info.pv_lock.
\* The priority_queue of moves is the set of the moves still in it: the
\* MoveOrdering comparator answers true for two quiet moves either way round,
\* which is no strict weak ordering, so top() may be any of them.  pv_iter
\* and next_pv_iter only feed that ordering and are left out, as is info.time,
\* which nothing reads back.
\* ------------------------------------------------------------------------
SetOf(xs) == { xs[i] : i \in 1..Len(xs) }

\* the GameState g once its node has become n1: the update of repeats and of
\* history in make_move.  As in the game, a GameState is followed for one call
\* after the call that broke its map, and then abandoned.
gs_moved(g, n1) ==
  IF g.repeats_state = "abandoned" THEN {}
  ELSE { [node |-> n1, repeats |-> out.entries,
          repeats_state |-> NextMapState(g.repeats_state, out.broken),
          history |-> Append(g.history, g.node)] :
           out \in repeats_count(g.repeats, g.repeats_state # "sound", n1.position) }

\* gs.make_move(m)
gs_make_move(g, m) == gs_moved(g, GameState_make_move(g.node, m))

\* gs.undo_move()
gs_undo_move(g) ==
  IF g.repeats_state = "abandoned" THEN {}
  ELSE { [node |-> g.history[Len(g.history)], repeats |-> out.entries,
          repeats_state |-> NextMapState(g.repeats_state, out.broken),
          history |-> SubSeq(g.history, 1, Len(g.history) - 1)] :
           out \in repeats_uncount(g.repeats, g.repeats_state # "sound", g.node.position) }

\* SearchResult(s, ml)
SearchResult(sc, ml) == [score |-> sc, pv |-> ml]

\* a call alpha_beta(gs, depth, alpha, beta, ...) that has not yet run
NewFrame(depth, alpha, beta) ==
  [depth |-> depth, alpha |-> alpha, beta |-> beta, ml |-> {}, m |-> NoMove, pv |-> <<>>]

\* the work thread with the locals s makes a move of the set ml on g and
\* enters alpha_beta: one configuration for each move that may be on top
MakeAndEnter(s, g, ml) ==
  UNION { { [s |-> [s EXCEPT !.pc = "enter"], g |-> g2, m |-> m] :
              g2 \in gs_make_move(g, m) } : m \in ml }

\* the move just made is recorded where the code holds it: in search it has
\* left the queue and is the local m, in alpha_beta it is still ml.top() of
\* the calling frame; the frame of the call is pushed
PushFrame(c) ==
  LET k == Len(c.s.stack)
  IN [s |-> IF k = 0
              THEN [c.s EXCEPT !.queue = @ \ {c.m}, !.m = c.m,
                               !.stack = << NewFrame(c.s.depth, NegInf, -c.s.best_score) >>]
              ELSE [c.s EXCEPT !.stack =
                      Append([@ EXCEPT ![k].m = c.m],
                             NewFrame(@[k].depth - 1, -@[k].beta, -@[k].alpha))],
      g |-> c.g]

\* the head of the loop over the moves, in search (empty stack) and in
\* alpha_beta: with no move left, search goes to the end of its iteration
NextMove(c) ==
  LET k == Len(c.s.stack)
      ml == IF k = 0 THEN c.s.queue ELSE c.s.stack[k].ml
  IN IF ml = {} THEN { [c EXCEPT !.s.pc = "iter_end"] }
     ELSE { PushFrame(c2) : c2 \in MakeAndEnter(c.s, c.g, ml) }

\* search, after alpha_beta has returned res and the move is undone: the two
\* comparisons of score
RootResult(s, res) ==
  LET score == -res.score
      s1 == IF score > s.best_score
              THEN [s EXCEPT !.best_score = score, !.best_move = s.m,
                             !.best_pv = <<s.m>> \o res.pv]
              ELSE s
  IN IF score > s.outer_best_score
       THEN [s1 EXCEPT !.outer_best_score = s1.best_score,
                       !.outer_best_move = s1.best_move,
                       !.principle_variation = s1.best_pv,
                       !.pc = "lock_move"]
       ELSE s1

\* alpha_beta, after its recursive call has returned res and the move is
\* undone, in the frame p: the cutoff, the update of alpha and pv, ml.pop()
FrameResult(p, res) ==
  LET score == -res.score
  IN IF score >= p.beta THEN [p EXCEPT !.ml = {}, !.alpha = p.beta, !.pv = <<>>]
     ELSE IF score > p.alpha
       THEN [p EXCEPT !.alpha = score, !.pv = <<p.m>> \o res.pv, !.ml = @ \ {p.m}]
     ELSE [p EXCEPT !.ml = @ \ {p.m}]

\* the top frame of the stack returns res: the caller undoes the move, takes
\* the result, and goes on to its next move or returns in its turn.  The
\* search is not followed beyond an undo_move on a map whose ordering was
\* broken before the call: it is left there, with the GameState as the call
\* left it.
RECURSIVE Return(_, _)
Return(c, res) ==
  UNION {
    LET st == c.s.stack
        k == Len(st)
    IN IF g2.repeats_state = "abandoned"
         THEN { [s |-> [c.s EXCEPT !.pc = "abandoned"], g |-> g2] }
       ELSE IF k = 1
         THEN LET s1 == RootResult([c.s EXCEPT !.stack = <<>>], res)
              IN IF s1.pc = "lock_move" THEN { [s |-> s1, g |-> g2] }
                 ELSE NextMove([s |-> s1, g |-> g2])
         ELSE LET p2 == FrameResult(st[k - 1], res)
                  c2 == [s |-> [c.s EXCEPT !.stack = Append(SubSeq(st, 1, k - 2), p2)],
                         g |-> g2]
              IN IF p2.ml = {} THEN Return(c2, SearchResult(p2.alpha, p2.pv))
                 ELSE NextMove(c2)
    : g2 \in gs_undo_move(c.g) }

\* a leaf that hands the evaluation on as it is, from white's side
LeafUnsigned(n, v) ==
  [ret |-> TRUE, ml |-> {}, res |-> SearchResult(v, <<>>)]

\* alpha_beta at depth 0: the evaluation v from the side of the mover
Leaf(n, v) ==
  [ret |-> TRUE, ml |-> {}, res |-> SearchResult(IF n.white_to_move THEN v ELSE -v, <<>>)]

\* alpha_beta with the moves move_list: mate or stalemate when there is none
Inner(n, move_list) ==
  [ret |-> move_list = <<>>, ml |-> SetOf(move_list),
   res |-> SearchResult(IF in_check(n.white_to_move, n.position) THEN -10000 ELSE 0, <<>>)]

\* alpha_beta from the depth test to the loop: what it returns without
\* searching a move (ret), or the moves it will search (ml)
Body(n, depth) ==
  IF depth = 0 THEN Leaf(n, evaluate_position(n)) ELSE Inner(n, generate_moves(n))

\* alpha_beta from its entry: the stop test and the node limit return the
\* sentinel, otherwise the body runs
Entered(n, depth, stopped) ==
  IF stopped THEN [ret |-> TRUE, ml |-> {}, res |-> SearchResult(0, <<>>)]
  ELSE Body(n, depth)

\* the call goes on as Entered found: it returns, or it searches its moves
Continue(c, o) ==
  IF o.ret THEN Return(c, o.res)
  ELSE NextMove([c EXCEPT !.s.stack[Len(c.s.stack)].ml = o.ml])

\* search, the head of its for loop over depth, and its return
IterStart(c) ==
  IF c.s.depth < c.s.max_depth
    THEN NextMove([c EXCEPT !.s.best_score = NegInf, !.s.best_move = NoMove,
                            !.s.best_pv = <<>>, !.s.queue = SetOf(c.s.ml)])
    ELSE { [c EXCEPT !.s.pc = "done",
                     !.s.result = [score |-> IF c.g.node.white_to_move
                                               THEN c.s.outer_best_score
                                               ELSE -c.s.outer_best_score,
                                   move |-> c.s.outer_best_move]] }

\* ------------------------------------------------------------------------
\* The engine (main.cpp): the front-end thread in Engine::start and
\* Engine::stop, the work thread in search, the timer thread in report
\* ------------------------------------------------------------------------
\* GameState("8/8/8/8/pp6/k4P2/8/K7 w - - 0 1")
SearchStart ==
  Node(PlaceAll(EmptyPosition,
          << <<24, 7>>, <<25, 7>>, <<16, 12>>, <<21, 0>>, <<0, 5>> >>, 1),
       TRUE, FALSE, FALSE, FALSE, FALSE, 0, FALSE, 0, 1)

\* the values of "go depth <n>"
DepthLimits == 1..MaxDepthLimit

\* the GameState the work thread searches on
GsOf ==
  [node |-> node, repeats |-> repeats, repeats_state |-> repeats_state, history |-> history]

\* the work thread and its GameState become the configuration c
SetSearch(c) ==
  /\ search' = c.s
  /\ node' = c.g.node
  /\ repeats' = c.g.repeats
  /\ repeats_state' = c.g.repeats_state
  /\ history' = c.g.history
  /\ UNCHANGED <<lastOp, lastMove, pre, gen, driverVars>>

\* info.pv_lock.lock() can return: no thread holds the mutex
pv_lock_ignored(l) == TRUE

pv_lock_available(l) == l = "free"

InitEngine ==
  /\ node = SearchStart
  /\ repeats = EmptyMap
  /\ repeats_state = "sound"
  /\ history = <<>>
  /\ lastOp = "none"
  /\ lastMove = NoMove
  /\ pre = NoObservation
  /\ gen = NotGenerated
  /\ EngineIdle
  /\ DriversIdle

\* the "go" command up to the two std::thread constructors of Engine::start
Go ==
  /\ main_pc = "idle"
  /\ \E d \in DepthLimits, t \in BOOLEAN :
       /\ limits' = Limits(d, t, Nullopt, Nullopt, FALSE, <<>>)
       /\ reporter' = [reporter EXCEPT !.pc = "top", !.given = t]
  /\ limits_alive' = TRUE
  /\ search' = [search EXCEPT !.pc = "init"]
  /\ main_pc' = "starting"
  /\ UNCHANGED <<gameVars, genVars, driverVars, stop_signal, info, pv_lock, observed>>

\* Engine::start returns: its parameter limits is destroyed
StartReturns ==
  /\ main_pc = "starting"
  /\ limits_alive' = FALSE
  /\ limits' = NoLimits
  /\ main_pc' = "running"
  /\ UNCHANGED <<gameVars, genVars, driverVars, stop_signal, info, pv_lock, search, reporter, observed>>

\* the "stop" command: Engine::stop up to work_thread->join()
Stop ==
  /\ main_pc = "running"
  /\ stop_signal' = TRUE
  /\ main_pc' = "join_work"
  /\ UNCHANGED <<gameVars, genVars, driverVars, info, pv_lock, limits, limits_alive, search, reporter,
                 observed>>

\* work_thread->join() returns
JoinWork ==
  /\ main_pc = "join_work"
  /\ search.pc = "done"
  /\ main_pc' = "join_timer"
  /\ UNCHANGED <<gameVars, genVars, driverVars, stop_signal, info, pv_lock, limits, limits_alive, search,
                 reporter, observed>>

\* timer_thread->join() returns, and the rest of Engine::stop
JoinTimer ==
  /\ main_pc = "join_timer"
  /\ reporter.pc = "done"
  /\ stop_signal' = FALSE
  /\ main_pc' = IF info.pv = <<>> THEN "threw" ELSE "stopped"
  /\ UNCHANGED <<gameVars, genVars, driverVars, info, pv_lock, limits, limits_alive, search, reporter,
                 observed>>

\* report, from the head of its loop to the read of stop_signal in
\* stop_signal = stop_signal || stop.  limits.timeout read through a reference
\* to a destroyed object may say anything.
ReportTick ==
  /\ reporter.pc = "top"
  /\ \E passed \in (IF reporter.given THEN BOOLEAN ELSE {FALSE}) :
       \E st \in (IF limits_alive THEN {limits.timeout /\ passed} ELSE BOOLEAN) :
         reporter' = [reporter EXCEPT !.pc = "write", !.stop = st,
                                      !.flag = stop_signal, !.passed = passed]
  /\ UNCHANGED <<gameVars, genVars, driverVars, stop_signal, info, pv_lock, limits, limits_alive,
                 main_pc, search, observed>>

\* the write of stop_signal = stop_signal || stop, and the write_period test;
\* the value read and stop are not used again
ReportWriteFlag ==
  /\ reporter.pc = "write"
  /\ stop_signal' = (reporter.flag \/ reporter.stop)
  /\ \E due \in BOOLEAN :
       reporter' = [reporter EXCEPT !.pc = IF due THEN "lock" ELSE "check",
                                    !.stop = FALSE, !.flag = FALSE, !.passed = FALSE]
  /\ UNCHANGED <<gameVars, genVars, driverVars, info, pv_lock, limits, limits_alive, main_pc, search,
                 observed>>

\* info.pv_lock.lock() in report
ReportLock ==
  /\ reporter.pc = "lock"
  /\ pv_lock_available(pv_lock)
  /\ pv_lock' = "report"
  /\ reporter' = [reporter EXCEPT !.pc = "read"]
  /\ UNCHANGED <<gameVars, genVars, driverVars, stop_signal, info, limits, limits_alive, main_pc, search,
                 observed>>

\* the loop over info.pv and info.pv_lock.unlock() in report
ReportRead ==
  /\ reporter.pc = "read"
  /\ pv_lock' = "free"
  /\ reporter' = [reporter EXCEPT !.pc = "check"]
  /\ UNCHANGED <<gameVars, genVars, driverVars, stop_signal, info, limits, limits_alive, main_pc, search,
                 observed>>

\* if (stop_signal) return; at the foot of the loop of report
ReportCheck ==
  /\ reporter.pc = "check"
  /\ reporter' = [reporter EXCEPT !.pc = IF stop_signal THEN "done" ELSE "top"]
  /\ UNCHANGED <<gameVars, genVars, driverVars, stop_signal, info, pv_lock, limits, limits_alive,
                 main_pc, search, observed>>

\* a depth cap that does not look at limits.mate_in
max_depth_without_mate(l) == IF l.depth_limit # Nullopt THEN l.depth_limit ELSE 1000

\* unsigned max_depth = limits.depth_limit.value_or(1000); if (limits.mate_in)
\* max_depth = 2 * (*limits.mate_in);
max_depth_of(l) ==
  IF l.mate_in # Nullopt THEN 2 * l.mate_in
  ELSE IF l.depth_limit # Nullopt THEN l.depth_limit ELSE 1000

\* limits.node_limit.value_or(std::numeric_limits<unsigned>::max())
max_nodes_of(alive, l) ==
  IF alive /\ l.node_limit # Nullopt THEN l.node_limit ELSE UnsignedMax

\* a root move list that does not look at limits.moves
root_moves_unrestricted(alive, l, n) == generate_moves(n)

\* ml = *limits.moves when limits.moves holds a list, generate_moves(gs) otherwise
root_moves(alive, l, n) ==
  IF alive /\ l.has_moves THEN l.moves ELSE generate_moves(n)

\* search up to its first call of alpha_beta.  limits is read through the
\* reference: once Engine::start has returned the value read may be any
\* depth limit.
SearchInit ==
  /\ search.pc = "init"
  /\ info' = [info EXCEPT !.nodes = 0, !.depth = 0]
  /\ \E md \in (IF limits_alive THEN {max_depth_of(limits)} ELSE DepthLimits) :
       \E c \in IterStart([s |-> [search EXCEPT !.ml = root_moves(limits_alive, limits, node),
                                                !.max_depth = md,
                                                !.max_nodes = max_nodes_of(limits_alive, limits),
                                                !.outer_best_score = NegInf,
                                                !.outer_best_move = NoMove,
                                                !.depth = 0],
                             g |-> GsOf]) : SetSearch(c)
  /\ UNCHANGED <<stop_signal, pv_lock, limits, limits_alive, main_pc, reporter, observed>>

\* alpha_beta is entered: the test of stop_signal, the node count, and the
\* call up to the next entry of alpha_beta or back into search
SearchEnter ==
  /\ search.pc = "enter"
  /\ info' = IF stop_signal THEN info ELSE [info EXCEPT !.nodes = @ + 1]
  /\ observed' = IF stop_signal \/ info.nodes + 1 > search.max_nodes
                   THEN [observed EXCEPT !.sentinel = TRUE] ELSE observed
  /\ \E c \in Continue([s |-> search, g |-> GsOf],
                        Entered(node, search.stack[Len(search.stack)].depth,
                                stop_signal \/ info.nodes + 1 > search.max_nodes)) :
       SetSearch(c)
  /\ UNCHANGED <<stop_signal, pv_lock, limits, limits_alive, main_pc, reporter>>

\* info.pv_lock.lock() after score > outer_best_score; the replacement of
\* info.pv begins
SearchLockMove ==
  /\ search.pc = "lock_move"
  /\ pv_lock_available(pv_lock)
  /\ pv_lock' = "search"
  /\ info' = [info EXCEPT !.pv_half = TRUE]
  /\ search' = [search EXCEPT !.pc = "write_move"]
  /\ UNCHANGED <<gameVars, genVars, driverVars, stop_signal, limits, limits_alive, main_pc, reporter,
                 observed>>

\* info.pv = best_pv is complete; unlock(), info.score = best_score, and on
\* to the next move of the queue
SearchWriteMove ==
  /\ search.pc = "write_move"
  /\ info' = [info EXCEPT !.pv = search.best_pv, !.pv_half = FALSE,
                          !.score = search.best_score]
  /\ pv_lock' = "free"
  /\ \E c \in NextMove([s |-> search, g |-> GsOf]) : SetSearch(c)
  /\ UNCHANGED <<stop_signal, limits, limits_alive, main_pc, reporter, observed>>

\* if (!stop_signal) after the loop over queue
SearchIterEnd ==
  /\ search.pc = "iter_end"
  /\ IF ~stop_signal
       THEN /\ search' = [search EXCEPT !.outer_best_score = search.best_score,
                                        !.outer_best_move = search.best_move,
                                        !.principle_variation = search.best_pv,
                                        !.pc = "lock_iter"]
            /\ UNCHANGED gameVars
       ELSE \E c \in IterStart([s |-> [search EXCEPT !.depth = @ + 1], g |-> GsOf]) :
              SetSearch(c)
  /\ UNCHANGED <<genVars, driverVars, stop_signal, info, pv_lock, limits, limits_alive, main_pc,
                 reporter, observed>>

\* info.pv_lock.lock() at the end of an iteration
SearchLockIter ==
  /\ search.pc = "lock_iter"
  /\ pv_lock_available(pv_lock)
  /\ pv_lock' = "search"
  /\ info' = [info EXCEPT !.pv_half = TRUE]
  /\ search' = [search EXCEPT !.pc = "write_iter"]
  /\ UNCHANGED <<gameVars, genVars, driverVars, stop_signal, limits, limits_alive, main_pc, reporter,
                 observed>>

\* info.pv = best_pv is complete; unlock(), info.depth, info.score, depth++
\* and the next iteration or the return of search
SearchWriteIter ==
  /\ search.pc = "write_iter"
  /\ info' = [info EXCEPT !.pv = search.best_pv, !.pv_half = FALSE,
                          !.depth = search.depth + 1,
                          !.score = search.outer_best_score]
  /\ pv_lock' = "free"
  /\ observed' = IF observed.sentinel THEN observed
                 ELSE [observed EXCEPT !.completed =
                         [valid |-> TRUE, score |-> search.outer_best_score,
                          move |-> search.outer_best_move, pv |-> search.best_pv,
                          depth |-> search.depth + 1]]
  /\ \E c \in IterStart([s |-> [search EXCEPT !.depth = @ + 1], g |-> GsOf]) : SetSearch(c)
  /\ UNCHANGED <<stop_signal, limits, limits_alive, main_pc, reporter>>

NextEngine ==
  \/ Go \/ StartReturns \/ Stop \/ JoinWork \/ JoinTimer
  \/ ReportTick \/ ReportWriteFlag \/ ReportLock \/ ReportRead \/ ReportCheck
  \/ SearchInit \/ SearchEnter \/ SearchLockMove \/ SearchWriteMove
  \/ SearchIterEnd \/ SearchLockIter \/ SearchWriteIter

SpecEngine == InitEngine /\ [][NextEngine]_vars

\* ------------------------------------------------------------------------
\* Properties of the engine
\* ------------------------------------------------------------------------
\* the searcher is between lock() and unlock() of info.pv_lock
SearchInCriticalSection == search.pc \in {"write_move", "write_iter"}

\* the reporter is between lock() and unlock() of info.pv_lock
ReportInCriticalSection == reporter.pc = "read"

\* the work thread has been started and search has not returned
SearchRunning == search.pc \notin {"idle", "done"}

\* C3: when a node has returned the stop sentinel, search returns the score
\* and the move committed by the last iteration that completed before that,
\* and the searcher's principal variation, info.pv and info.score are the
\* ones that iteration committed: nothing of the partial iteration is kept.
C3_PartialIterationDiscarded ==
  (search.pc = "done" /\ observed.sentinel /\ observed.completed.valid) =>
    /\ search.result =
         [score |-> IF node.white_to_move THEN observed.completed.score
                    ELSE -observed.completed.score,
          move |-> observed.completed.move]
    /\ search.principle_variation = observed.completed.pv
    /\ info.pv = observed.completed.pv
    /\ info.score = observed.completed.score

\* C4: while the search thread is running, no step of any thread takes
\* stop_signal from true back to false.
C4_StopFlagMonotonic ==
  [][(stop_signal /\ SearchRunning) => stop_signal']_vars

\* C5: the searcher replaces info.pv and the reporter reads it only while
\* holding info.pv_lock, the two are never in their critical sections
\* together, the lock is held only inside a critical section, which ends by
\* unlocking it, and the reporter never reads info.pv while it is half
\* replaced.
C5_PvLockProtocol ==
  /\ SearchInCriticalSection => pv_lock = "search"
  /\ ReportInCriticalSection => pv_lock = "report"
  /\ ~(SearchInCriticalSection /\ ReportInCriticalSection)
  /\ pv_lock = "search" => SearchInCriticalSection
  /\ pv_lock = "report" => ReportInCriticalSection
  /\ info.pv_half => SearchInCriticalSection
  /\ ReportInCriticalSection => ~info.pv_half

\* the reporter reads a principal variation while the searcher waits at
\* lock() with the next one
C5_Witness ==
  /\ ReportInCriticalSection
  /\ search.pc \in {"lock_move", "lock_iter"}
  /\ info.pv # <<>>
  /\ search.best_pv # info.pv

\* C6: when search has returned on reaching its depth limit, with no node
\* stopped and no stop command given, stop_signal is true.
C6_SearchRaisesStop ==
  (search.pc = "done" /\ ~observed.sentinel /\ main_pc \in {"starting", "running"})
    => stop_signal


\* ------------------------------------------------------------------------
\* search called directly, as the searcher's tests call it: one thread runs
\* searcher.search(gs, limits, info, stop_signal) with limits that outlive the
\* call; another thread may raise stop_signal
\* ------------------------------------------------------------------------
\* GameState("k7/8/K4p2/PP6/8/8/8/8 b - - 0 1"): SearchStart with the colours
\* exchanged
SearchStartBlack ==
  Node(PlaceAll(EmptyPosition,
                << <<32, 0>>, <<33, 0>>, <<40, 5>>, <<45, 7>>, <<56, 12>> >>, 1),
       FALSE, FALSE, FALSE, FALSE, FALSE, 0, FALSE, 0, 1)

\* GameState("8/7K/8/6pk/6p1/6P1/8/8 w - - 0 1"): after Kg7 black has no move
StalemateStart ==
  Node(PlaceAll(EmptyPosition,
                << <<55, 5>>, <<38, 7>>, <<39, 12>>, <<30, 7>>, <<22, 0>> >>, 1),
       TRUE, FALSE, FALSE, FALSE, FALSE, 0, FALSE, 0, 1)

\* GameState("k7/P7/K7/8/8/8/8/8 b - - 0 1"): black to move has no move
NoMoveStart ==
  Node(PlaceAll(EmptyPosition, << <<56, 12>>, <<48, 0>>, <<40, 5>> >>, 1),
       FALSE, FALSE, FALSE, FALSE, FALSE, 0, FALSE, 0, 1)

\* GameState("k7/8/K1p2p2/PP6/8/8/8/8 b - - 0 1"): after Kb8 or f5 white can
\* take the pawn on c6
CaptureBackStart ==
  Node(PlaceAll(EmptyPosition,
                << <<32, W_PAWN>>, <<33, W_PAWN>>, <<40, W_KING>>, <<42, B_PAWN>>,
                   <<45, B_PAWN>>, <<56, B_KING>> >>, 1),
       FALSE, FALSE, FALSE, FALSE, FALSE, 0, FALSE, 0, 1)

SearchRoots == {SearchStart, SearchStartBlack, StalemateStart, NoMoveStart, CaptureBackStart}

\* limits.node_limit, when set
NodeLimits == {1, 3}

\* limits.mate_in, when set
MateIns == {1}

\* the limits of a call on the GameState at n: a depth limit, with or without
\* a node limit, a mate_in and a list of moves holding the first legal move
TestLimits(n) ==
  { Limits(d, FALSE, nl, mi, hm, IF hm /\ generate_moves(n) # <<>> THEN SubSeq(generate_moves(n), 1, 1) ELSE <<>>) :
      d \in DepthLimits, nl \in {Nullopt} \cup NodeLimits, mi \in {Nullopt} \cup MateIns,
      hm \in BOOLEAN }

InitSearch ==
  /\ node \in SearchRoots
  /\ repeats = EmptyMap
  /\ repeats_state = "sound"
  /\ history = <<>>
  /\ lastOp = "none"
  /\ lastMove = NoMove
  /\ pre = Observe(node, EmptyMap, <<>>)
  /\ gen = NotGenerated
  /\ DriversIdle
  /\ stop_signal = FALSE
  /\ info = [score |-> 0, depth |-> 0, nodes |-> 0, pv |-> <<>>, pv_half |-> FALSE]
  /\ pv_lock = "free"
  /\ limits \in TestLimits(node)
  /\ limits_alive = TRUE
  /\ main_pc = "test"
  /\ search = [SearchIdle EXCEPT !.pc = "init"]
  /\ reporter = ReportIdle
  /\ observed = [sentinel |-> FALSE, completed |-> NothingCommitted]

\* stop_signal = true, written by another thread while search runs
RaiseStop ==
  /\ SearchRunning
  /\ ~stop_signal
  /\ stop_signal' = TRUE
  /\ UNCHANGED <<gameVars, genVars, driverVars, info, pv_lock, limits, limits_alive, main_pc,
                 search, reporter, observed>>

NextSearch ==
  \/ SearchInit \/ SearchEnter \/ SearchLockMove \/ SearchWriteMove
  \/ SearchIterEnd \/ SearchLockIter \/ SearchWriteIter \/ RaiseStop

SpecSearch == InitSearch /\ [][NextSearch]_vars

\* the most the side to move at n can secure in depth plies, as the rules of
\* the game tree give it: the evaluation seen from the mover at depth 0, mate
\* or stalemate when there is no move, and otherwise the best of the negated
\* values of the positions one move on
RECURSIVE MoverValue(_, _)
MoverValue(n, depth) ==
  IF depth = 0
    THEN (IF n.white_to_move THEN evaluate_position(n) ELSE -evaluate_position(n))
    ELSE IF generate_moves(n) = <<>>
      THEN (IF in_check(n.white_to_move, n.position) THEN -10000 ELSE 0)
      ELSE LET vs == { -MoverValue(GameState_make_move(n, m), depth - 1) :
                         m \in SetOf(generate_moves(n)) }
           IN CHOOSE v \in vs : \A u \in vs : u <= v

\* search has returned, stop_signal was not raised and the node limit has cut
\* no node off
CompletedSearch == search.pc = "done" /\ ~observed.sentinel /\ ~stop_signal

C15_NodeLimitDiscards ==
  (search.pc = "done" /\ limits.node_limit # Nullopt /\ observed.sentinel /\ ~stop_signal) =>
    /\ search.principle_variation = observed.completed.pv
    /\ info.pv = observed.completed.pv
    /\ info.depth = observed.completed.depth
    /\ observed.completed.valid =>
         /\ info.score = observed.completed.score
         /\ search.result =
              [score |-> IF node.white_to_move THEN observed.completed.score
                         ELSE -observed.completed.score,
               move |-> observed.completed.move]


\* the node reached from n by the moves of pv in turn
RECURSIVE AfterMoves(_, _, _)
AfterMoves(n, pv, i) ==
  IF i > Len(pv) THEN n ELSE AfterMoves(GameState_make_move(n, pv[i]), pv, i + 1)

RootNode == IF history = <<>> THEN node ELSE history[1]

\* the root move set: limits.moves when given, generate_moves(gs) otherwise
RootMoveSet ==
  IF limits.has_moves THEN SetOf(limits.moves) ELSE SetOf(generate_moves(RootNode))

\* every move made at the root is one of the root move set
RootMovesMade ==
  history # <<>> =>
    \E m \in RootMoveSet :
      GameState_make_move(RootNode, m) = (IF Len(history) >= 2 THEN history[2] ELSE node)

SessionRoots == {SearchStart, NoMoveStart}

InitSessions ==
  /\ node \in SessionRoots
  /\ repeats = EmptyMap
  /\ repeats_state = "sound"
  /\ history = <<>>
  /\ lastOp = "none"
  /\ lastMove = NoMove
  /\ pre = NoObservation
  /\ gen = NotGenerated
  /\ EngineIdle
  /\ DriversIdle

\* "go depth 1" of the first session
GoFirst ==
  /\ main_pc = "idle"
  /\ limits' = Limits(1, FALSE, Nullopt, Nullopt, FALSE, <<>>)
  /\ limits_alive' = TRUE
  /\ reporter' = [reporter EXCEPT !.pc = "top"]
  /\ search' = [search EXCEPT !.pc = "init"]
  /\ main_pc' = "starting"
  /\ UNCHANGED <<gameVars, genVars, driverVars, stop_signal, info, pv_lock, observed>>

\* "position fen ..." and "go depth 1" after a "stop" that returned a move:
\* gs is a new GameState, the threads are new, info and the searcher's
\* principle_variation are those the last session left
GoNext ==
  /\ main_pc = "stopped"
  /\ node' \in SessionRoots
  /\ repeats' = EmptyMap
  /\ repeats_state' = "sound"
  /\ history' = <<>>
  /\ limits' = Limits(1, FALSE, Nullopt, Nullopt, FALSE, <<>>)
  /\ limits_alive' = TRUE
  /\ reporter' = [ReportIdle EXCEPT !.pc = "top"]
  /\ search' = [SearchIdle EXCEPT !.pc = "init",
                                  !.principle_variation = search.principle_variation]
  /\ observed' = [sentinel |-> FALSE, completed |-> NothingCommitted]
  /\ main_pc' = "starting"
  /\ UNCHANGED <<lastOp, lastMove, pre, genVars, driverVars, stop_signal, info, pv_lock>>

NextSessions ==
  \/ GoFirst \/ GoNext \/ StartReturns \/ Stop \/ JoinWork \/ JoinTimer
  \/ ReportTick \/ ReportWriteFlag \/ ReportLock \/ ReportRead \/ ReportCheck
  \/ SearchInit \/ SearchEnter \/ SearchLockMove \/ SearchWriteMove
  \/ SearchIterEnd \/ SearchLockIter \/ SearchWriteIter

SpecSessions == InitSessions /\ [][NextSessions]_vars

\* C18: when stop() returns a move, a root move of the session being stopped
\* has produced a principal variation and the move returned is the first move
\* of it; a session in which no root move has produced one ends in the error.
C18_StopReturnsSessionMove ==
  main_pc = "stopped" =>
    /\ search.outer_best_move # NoMove
    /\ info.pv[1] = search.outer_best_move


\* ------------------------------------------------------------------------
\* main: the UCI command loop and the lifetime of the attack tables.  The
\* Engine's session is followed only as far as the tables are concerned: it
\* runs from "go" to "stop", and while it runs the work thread calls
\* generate_moves.  Command sequences give "go" only when no search is
\* running, "stop" only when one is, and "quit" only after the search was
\* stopped.
\* ------------------------------------------------------------------------
MaxIsReady == 2      \* "isready" commands followed
MaxGenerates == 2    \* generate_moves calls of the work thread that are counted

\* positions given by "position fen ..." / "position startpos"
UciRoots == {DefaultStart, SearchStart, NoMoveStart}

InitUci ==
  /\ node = DefaultStart
  /\ repeats = EmptyMap
  /\ repeats_state = "sound"
  /\ history = <<>>
  /\ lastOp = "none"
  /\ lastMove = NoMove
  /\ pre = NoObservation
  /\ gen = NotGenerated
  /\ EngineIdle
  /\ DriversIdle

\* movegen_initialize_attack_boards: every call mallocs the attack_table of
\* each of the 64 rook and 64 bishop magics and stores the pointers over
\* whatever the magics held.  Counted in sets of tables.
movegen_initialize_attack_boards(u) ==
  [u EXCEPT !.magics = "set",
            !.allocated = @ + 1,
            !.init_calls = @ + 1,
            !.reinit = @ \/ u.magics = "set"]

\* movegen_free_magics: frees the tables the magics point to
movegen_free_magics(u) ==
  [u EXCEPT !.magics = "freed",
            !.allocated = IF u.magics = "set" THEN @ - 1 ELSE @,
            !.free_calls = @ + 1]

\* "isready"
IsReady ==
  /\ uci.pc = "loop"
  /\ uci.init_calls < MaxIsReady
  /\ uci' = [movegen_initialize_attack_boards(uci) EXCEPT !.boards_initialized = TRUE]
  /\ UNCHANGED <<gameVars, genVars, engineVars, perft, edit, evals, order, mag>>

\* "position fen ..." / "position startpos", without moves
UciPosition ==
  /\ uci.pc = "loop"
  /\ uci.session # "running"
  /\ node' \in UciRoots
  /\ repeats' = EmptyMap
  /\ repeats_state' = "sound"
  /\ history' = <<>>
  /\ UNCHANGED <<lastOp, lastMove, pre, genVars, engineVars, driverVars>>

\* "go": engine.start(limits, gs) starts the threads
UciGo ==
  /\ uci.pc = "loop"
  /\ uci.session # "running"
  /\ uci' = [uci EXCEPT !.session = "running", !.generated = 0]
  /\ UNCHANGED <<gameVars, genVars, engineVars, perft, edit, evals, order, mag>>

\* the work thread: search calls generate_moves(gs).  With the tables
\* initialized the call returns the MoveList.  With the magics still zero
\* get_attacks_to shifts by 64 and reads through a null attack_table:
\* the process is killed, or the read yields some value and the call returns.
WorkGenerates ==
  /\ uci.pc = "loop"
  /\ uci.session = "running"
  /\ uci.generated < MaxGenerates
  /\ IF uci.magics = "set"
       THEN /\ gen' = [called |-> TRUE, moves |-> generate_moves(node)]
            /\ uci' = [uci EXCEPT !.generated = @ + 1]
       ELSE /\ \E killed \in BOOLEAN :
                 uci' = [uci EXCEPT !.generated = @ + 1,
                                    !.uninit_read = TRUE,
                                    !.pc = IF killed THEN "killed" ELSE @]
            /\ UNCHANGED gen
  /\ UNCHANGED <<gameVars, engineVars, perft, edit, evals, order, mag>>

\* "stop": engine.stop() joins the threads
UciStop ==
  /\ uci.pc = "loop"
  /\ uci.session = "running"
  /\ uci' = [uci EXCEPT !.session = "stopped"]
  /\ UNCHANGED <<gameVars, genVars, engineVars, perft, edit, evals, order, mag>>

\* "quit" (or the end of the input): the loop is left, and the tables are
\* freed if an "isready" was ever seen
Quit ==
  /\ uci.pc = "loop"
  /\ uci.session # "running"
  /\ uci' = [(IF uci.boards_initialized THEN movegen_free_magics(uci) ELSE uci)
               EXCEPT !.pc = "exited"]
  /\ UNCHANGED <<gameVars, genVars, engineVars, perft, edit, evals, order, mag>>

NextUci == IsReady \/ UciPosition \/ UciGo \/ WorkGenerates \/ UciStop \/ Quit

SpecUci == InitUci /\ [][NextUci]_vars

\* C19: for every sequence of UCI commands the attack tables are initialized
\* at most once and never while a set of them is allocated, no generate_moves
\* call is made before they are initialized, and once main has left its loop
\* every set that was allocated has been freed by one call of
\* movegen_free_magics.
C19_TablesOnce ==
  /\ uci.init_calls <= 1
  /\ ~uci.reinit
  /\ ~uci.uninit_read
  /\ uci.generated > 0 => uci.init_calls >= 1
  /\ uci.pc = "exited" =>
       /\ uci.allocated = 0
       /\ uci.free_calls = uci.init_calls

\* ------------------------------------------------------------------------
\* The en-passant target and the clocks after make_move
\* ------------------------------------------------------------------------
\* the last move took a pawn two squares forward along its file
PawnSkips ==
  /\ \/ piece_at(prev.position, lastMove.from, W_PAWN) /\ lastMove.to = lastMove.from + 16
     \/ piece_at(prev.position, lastMove.from, B_PAWN) /\ lastMove.to = lastMove.from - 16

\* the en-passant field of a FEN string: what follows its third space
RECURSIVE AfterSpaces(_, _, _)
AfterSpaces(str, i, k) ==
  IF k = 0 THEN SubSeq(str, i, Len(str))
  ELSE IF i > Len(str) THEN ""
  ELSE AfterSpaces(str, i + 1, IF SubSeq(str, i, i) = " " THEN k - 1 ELSE k)

\* C21: after make_move(m) the en-passant target is set if and only if m is a
\* double pawn push (flag PAWN_DOUBLE), and then it is the square the pawn
\* skipped over; after any other move it is cleared, so that the target of a
\* double push is gone one ply later.  fen_string shows the same.
C21_EnPassantTarget ==
  lastOp = "make" =>
    /\ node.en_passant_possible <=> double_pawn_push(lastMove)
    /\ double_pawn_push(lastMove) <=> PawnSkips
    /\ node.en_passant_possible =>
         /\ 2 * node.en_passant_square = lastMove.from + lastMove.to
         /\ node.en_passant_square =
              IF prev.white_to_move THEN lastMove.to - 8 ELSE lastMove.to + 8
         /\ SubSeq(AfterSpaces(fen_string(node), 1, 3), 1, 2)
              = int_to_algebraic(node.en_passant_square)
    /\ ~node.en_passant_possible =>
         SubSeq(AfterSpaces(fen_string(node), 1, 3), 1, 2) = "- "

\* C21 witness: black has just pushed a pawn two squares, one ply after white
\* did; the target is black's skipped square
C21_Witness ==
  /\ lastOp = "make"
  /\ Len(history) = 2
  /\ lastMove.piece = B_PAWN
  /\ double_pawn_push(lastMove)
  /\ prev.en_passant_possible
  /\ node.en_passant_possible
  /\ node.en_passant_square = lastMove.to + 8
  /\ node.en_passant_square # prev.en_passant_square

\* the last move took a piece off the board
PieceTaken ==
  Cardinality(get_board(node.position, BOTH_ALL))
    < Cardinality(get_board(prev.position, BOTH_ALL))

\* the last move moved a pawn
PawnMoved ==
  \/ piece_at(prev.position, lastMove.from, W_PAWN)
  \/ piece_at(prev.position, lastMove.from, B_PAWN)

\* C22: after make_move(m) the side to move is flipped, and the halfmove clock
\* is 0 if and only if m was a pawn move or a capture; otherwise it is the
\* clock before the move plus one.
C22_SideAndClock ==
  lastOp = "make" =>
    /\ node.white_to_move = ~prev.white_to_move
    /\ node.half_moves_since_reset = 0 <=> (PawnMoved \/ PieceTaken)
    /\ ~(PawnMoved \/ PieceTaken) =>
         node.half_moves_since_reset = prev.half_moves_since_reset + 1

\* C22 witness: a piece that is no pawn has just captured, after a quiet move
\* had taken the clock to 1
C22_Witness ==
  /\ lastOp = "make"
  /\ Len(history) = 2
  /\ prev.half_moves_since_reset = 1
  /\ PieceTaken /\ ~PawnMoved
  /\ node.half_moves_since_reset = 0

\* ------------------------------------------------------------------------
\* A Position under place_piece / remove_piece
\* ------------------------------------------------------------------------
MaxEdits == 3     \* calls made on the Position

\* the squares and piece kinds of the calls: a1, a2, e4 and the white rook,
\* pawn and bishop
EditSquares == {0, 8, 28}

EditPieces == {W_ROOK, W_PAWN, W_BISHOP}

\* "3qkbnr/7p/8/8/8/8/P7/RNBQK3", built by twelve place_piece calls
EditStart ==
  PlaceAll(EmptyPosition,
    << <<0, 3>>, <<1, 1>>, <<2, 2>>, <<3, 4>>, <<4, 5>>, <<8, 0>>,
       <<63, 10>>, <<62, 8>>, <<61, 9>>, <<60, 12>>, <<59, 11>>, <<55, 7>> >>, 1)

InitPieces ==
  /\ node = SearchStart
  /\ repeats = EmptyMap
  /\ repeats_state = "sound"
  /\ history = <<>>
  /\ lastOp = "none"
  /\ lastMove = NoMove
  /\ pre = NoObservation
  /\ gen = NotGenerated
  /\ EngineIdle
  /\ perft = PerftIdle
  /\ uci = MainStart
  /\ evals = NotEvaluated
  /\ order = NoOrder
  /\ mag = NoMagic
  /\ edit = [NoEdit EXCEPT !.p = EditStart, !.before = EditStart]

\* p.place_piece(pos, piece), on a square no piece is on
PlacePiece ==
  /\ edit.calls < MaxEdits
  /\ \E pos \in EditSquares, piece \in EditPieces :
       /\ \A k \in BoardIdx : ~piece_at(edit.p, pos, k)
       /\ edit' = [p |-> place_piece(edit.p, pos, piece), op |-> "place",
                   pos |-> pos, piece |-> piece, before |-> edit.p,
                   calls |-> edit.calls + 1]
  /\ UNCHANGED <<gameVars, genVars, engineVars, perft, uci, evals, order, mag>>

\* p.remove_piece(pos, piece): the piece may be there or not
RemovePiece ==
  /\ edit.calls < MaxEdits
  /\ \E pos \in EditSquares, piece \in EditPieces :
       edit' = [p |-> remove_piece(edit.p, pos, piece), op |-> "remove",
                pos |-> pos, piece |-> piece, before |-> edit.p,
                calls |-> edit.calls + 1]
  /\ UNCHANGED <<gameVars, genVars, engineVars, perft, uci, evals, order, mag>>

NextPieces == PlacePiece \/ RemovePiece

SpecPieces == InitPieces /\ [][NextPieces]_vars

\* C23: remove_piece(sq, k) called when bit sq of boards[k] is clear, the
\* square being empty or holding a different piece, leaves the Position as it
\* was.
C23_RemoveAbsentNoOp ==
  (edit.op = "remove" /\ ~piece_at(edit.before, edit.pos, edit.piece)) =>
     edit.p = edit.before

\* ------------------------------------------------------------------------
\* The repetition map along a line of make_move / undo_move calls
\* ------------------------------------------------------------------------
\* the position the i-th make_move of the current line resulted in
LinePosition(i) ==
  IF i < Len(history) THEN history[i + 1].position ELSE node.position

\* the number of not-yet-undone make_move calls that resulted in position p
LineCount(p) ==
  Cardinality({ i \in 1..Len(history) : LinePosition(i).boards = p.boards })

\* C20: after any sequence of make_move and undo_move calls the repetition map
\* holds, for every position, the number of not-yet-undone make_move calls that
\* resulted in it: each position of the current line has one entry with that
\* count, and there is no entry with a count <= 0 and no entry for a position
\* that is not on the current line.
C20_RepeatsCountLine ==
  /\ \A i \in 1..Len(history) :
       \E e \in MapEntries(repeats) :
         /\ e.key.boards = LinePosition(i).boards
         /\ e.val = LineCount(LinePosition(i))
  /\ \A e \in MapEntries(repeats) :
       /\ e.val > 0
       /\ LineCount(e.key) > 0
       /\ CopiesIn(e, repeats) = 1
       /\ \A f \in MapEntries(repeats) : f.key.boards = e.key.boards => f = e

\* ------------------------------------------------------------------------
\* The evaluator on a position and on its colour-mirrored counterpart
\* ------------------------------------------------------------------------
\* the board reflected rank-wise with the colours swapped
MirrorBoard(k) == IF k = BOTH_ALL THEN BOTH_ALL ELSE MirrorPiece(k)

MirrorPosition(p) ==
  [boards |-> [k \in BoardIdx |-> { Mirror(sq) : sq \in p.boards[MirrorBoard(k)] }],
   piece_sets |-> [k \in BoardIdx |-> { Mirror(sq) : sq \in p.piece_sets[MirrorBoard(k)] }]]

\* the colour-mirrored counterpart of a game state: side to move flipped,
\* castling rights and en-passant target mirrored
MirrorNode(n) ==
  Node(MirrorPosition(n.position), ~n.white_to_move,
       n.b_castle_k, n.b_castle_q, n.w_castle_k, n.w_castle_q,
       IF n.en_passant_possible THEN Mirror(n.en_passant_square) ELSE n.en_passant_square,
       n.en_passant_possible, n.half_moves_since_reset, n.moves)

\* GameState("rnbqkbnr/pppp1ppp/8/4p3/4P3/8/PPPP1PPP/RNBQKBNR w KQkq e6 0 1")
AfterE4E5 ==
  [GameState_make_move(
     GameState_make_move(DefaultStart, Move(12, 28, W_PAWN, PAWN_DOUBLE)),
     Move(52, 36, B_PAWN, PAWN_DOUBLE))
   EXCEPT !.moves = 1]

EvalNodes == KingPawnNodes \cup EnPassantNodes \cup {AfterE4E5, MirrorNode(AfterE4E5)}

InitEval ==
  /\ node \in EvalNodes
  /\ repeats = EmptyMap
  /\ repeats_state = "sound"
  /\ history = <<>>
  /\ lastOp = "none"
  /\ lastMove = NoMove
  /\ pre = NoObservation
  /\ gen = NotGenerated
  /\ EngineIdle
  /\ DriversIdle

\* double s1 = b.evaluate_position(gs1); double s2 = b.evaluate_position(gs2);
\* for gs1 = node and gs2 its mirrored counterpart
Evaluate ==
  /\ ~evals.called
  /\ evals' = [called |-> TRUE, s1 |-> evaluate_position(node),
               s2 |-> evaluate_position(MirrorNode(node))]
  /\ UNCHANGED <<gameVars, genVars, engineVars, perft, uci, edit, order, mag>>

NextEval == Evaluate

SpecEval == InitEval /\ [][NextEval]_vars

\* the position is its own mirror image up to the side to move
SelfMirror(n) ==
  /\ MirrorPosition(n.position) = n.position
  /\ n.w_castle_k = n.b_castle_k
  /\ n.w_castle_q = n.b_castle_q

\* C24: for every game state and its colour-mirrored counterpart the two
\* evaluations sum to zero; a position that is its own mirror image up to the
\* side to move, with or without an en-passant target, evaluates to 0.
C24_MirrorSumsToZero ==
  evals.called =>
    /\ evals.s1 + evals.s2 = 0
    /\ SelfMirror(node) => evals.s1 = 0

\* ------------------------------------------------------------------------
\* The engine under a fair scheduler: a thread that can take a step takes one,
\* and a thread waiting for info.pv_lock gets it when it is free again and
\* again
\* ------------------------------------------------------------------------
\* ------------------------------------------------------------------------
\* The search against the plain game tree (search.cpp, search and alpha_beta)
\* ------------------------------------------------------------------------
\* the root move m attains the value v of the root in depth plies
Attains(n, m, depth, v) ==
  /\ m \in SetOf(generate_moves(n))
  /\ -MoverValue(GameState_make_move(n, m), depth - 1) = v

\* C26: for a search to depth D that was neither stopped nor cut by the node
\* limit, the score the last iteration commits is the negamax value of the
\* tree of D plies below the root (evaluations signed to the mover at the
\* leaves, -1000 for a node without moves in check, 0 for one not in check),
\* and the best move is a root move that attains this value.
C26_NegamaxValue ==
  (CompletedSearch /\ search.max_depth > 0 /\ ~limits.has_moves) =>
    /\ info.score = MoverValue(node, search.max_depth)
    /\ Attains(node, search.result.move, search.max_depth, info.score)

\* C26 at a root that has a move: the score and the move of the last
\* iteration are those of the plain game tree
C26_NegamaxWithMoves ==
  (CompletedSearch /\ search.max_depth > 0 /\ ~limits.has_moves /\ search.ml # <<>>) =>
    /\ info.score = MoverValue(node, search.max_depth)
    /\ Attains(node, search.result.move, search.max_depth, info.score)

\* the counts of the entries of the map es, added up
RECURSIVE TotalCount(_)
TotalCount(es) ==
  IF es = EmptyBag THEN 0
  ELSE LET e == CHOOSE e \in BagToSet(es) : TRUE
       IN e.val + TotalCount(es (-) SetToBag({e}))

\* C29: search leaves the caller's GameState as it was.  While it runs gs
\* differs from the GameState at the call by the moves made and not yet undone
\* alone: the position at the call lies at the bottom of the history, and the
\* repetition map counts one for each of these moves and nothing else; when
\* search has returned the FEN string, the map and the length of the history
\* are those at the call.
C29_SearchRestores ==
  /\ fen_string(IF history = <<>> THEN node ELSE history[1]) = pre.fen
  /\ TotalCount(repeats) = Len(history)
  /\ \A e \in MapEntries(repeats) : e.val > 0
  /\ search.pc = "done" => Observe(node, repeats, history) = pre


SearchStep ==
  \/ SearchInit \/ SearchEnter \/ SearchWriteMove \/ SearchIterEnd \/ SearchWriteIter

ReportStep == ReportTick \/ ReportWriteFlag \/ ReportRead \/ ReportCheck

FairSpecEngine ==
  /\ SpecEngine
  /\ WF_vars(SearchStep) /\ SF_vars(SearchLockMove) /\ SF_vars(SearchLockIter)
  /\ WF_vars(ReportStep) /\ SF_vars(ReportLock)

\* the reporter has read the clock and computed stop, in a session whose go
\* command gave a movetime that has passed
TimeoutSeenPassed == reporter.pc = "write" /\ reporter.given /\ reporter.passed

\* C25: with limits.timeout set, once the elapsed time is above it the
\* reporter computes stop = true at its next reading of the clock and sets
\* stop_signal with it; this is the step from which the search thread is to
\* return after finitely many steps.
C25_TimeoutTerminates ==
  [][(TimeoutSeenPassed /\ reporter'.pc # "write") => (reporter.stop /\ stop_signal')]_vars


\* ------------------------------------------------------------------------
\* Move ordering (search.cpp): piece_score, MoveOrdering, and the priority
\* queue that alpha_beta builds from the legal moves of a node
\* ------------------------------------------------------------------------
\* a call that returned v, and a call left by throw std::runtime_error
Returned(v) == [thrown |-> FALSE, value |-> v]
Thrown == [thrown |-> TRUE, value |-> 0]

\* int piece_score(int piece): the switch, whose default case throws
piece_score(piece) ==
  IF piece \in {W_PAWN, B_PAWN} THEN Returned(1)
  ELSE IF piece \in {W_KNIGHT, B_KNIGHT, W_BISHOP, B_BISHOP} THEN Returned(3)
  ELSE IF piece \in {W_ROOK, B_ROOK} THEN Returned(5)
  ELSE IF piece \in {W_QUEEN, B_QUEEN} THEN Returned(9)
  ELSE Thrown

\* what gs.pos().get_piece(square) may return for a square no piece stands
\* on: any int the callers of piece_score can be handed
AbsentResults == -1 .. B_ALL

\* gs.pos().get_piece(square): the kind of the piece on the square; absent is
\* what the call returns for an empty square
get_piece(p, square, absent) ==
  IF \E k \in WhiteKinds \cup BlackKinds : piece_at(p, square, k)
    THEN CHOOSE k \in WhiteKinds \cup BlackKinds : piece_at(p, square, k)
    ELSE absent

\* MoveOrdering mo(gs, pv_move): the node, the optional PV move (<<>> or <<m>>)
MoveOrderingOf(n, pv_move, absent) == [gs |-> n, pv_move |-> pv_move, absent |-> absent]

\* the difference of two piece_score calls, either of which may throw
score_difference(victim, attacker) ==
  IF victim.thrown \/ attacker.thrown THEN Thrown
  ELSE Returned(victim.value - attacker.value)

\* piece_score(gs.pos().get_piece(m.to_square())) - piece_score(m.piece())
capture_score(mo, m) ==
  score_difference(piece_score(get_piece(mo.gs.position, m.to, mo.absent)),
                   piece_score(m.piece))

\* return lscore < rscore
score_less(lscore, rscore) ==
  IF lscore.thrown \/ rscore.thrown THEN Thrown
  ELSE Returned(lscore.value < rscore.value)

\* MoveOrdering::operator()(l, r): true when r goes before l
MoveOrdering(mo, l, r) ==
  IF mo.pv_move # <<>> /\ l = mo.pv_move[1] THEN Returned(FALSE)
  ELSE IF mo.pv_move # <<>> /\ r = mo.pv_move[1] THEN Returned(TRUE)
  ELSE IF capture(l) /\ ~capture(r) THEN Returned(FALSE)
  ELSE IF ~capture(l) /\ capture(r) THEN Returned(TRUE)
  ELSE IF capture(l) THEN score_less(capture_score(mo, l), capture_score(mo, r))
  ELSE Returned(TRUE)

\* std::__push_heap: value climbs from the hole towards topIndex while its
\* parent compares below it.  Indices are those of the C++ code, from 0; the
\* vector a is a sequence from 1.  push_heap_step is one pass of the loop
\* with the result r of comp(first + parent, value).
RECURSIVE push_heap(_, _, _, _, _)
push_heap_step(mo, a, holeIndex, topIndex, value, parent, r) ==
  IF r.thrown THEN [a |-> a, thrown |-> TRUE]
  ELSE IF r.value
    THEN push_heap(mo, [a EXCEPT ![holeIndex + 1] = a[parent + 1]], parent, topIndex, value)
  ELSE [a |-> [a EXCEPT ![holeIndex + 1] = value], thrown |-> FALSE]

push_heap(mo, a, holeIndex, topIndex, value) ==
  IF holeIndex > topIndex
    THEN push_heap_step(mo, a, holeIndex, topIndex, value, (holeIndex - 1) \div 2,
                        MoveOrdering(mo, a[(holeIndex - 1) \div 2 + 1], value))
    ELSE [a |-> [a EXCEPT ![holeIndex + 1] = value], thrown |-> FALSE]

\* the while loop of std::__adjust_heap: the hole sinks to the larger child.
\* sift_hole_step is one pass with the result r of
\* comp(first + secondChild, first + (secondChild - 1)).
RECURSIVE sift_hole(_, _, _, _)
sift_hole_step(mo, a, hole, len, secondChild, r) ==
  IF r.thrown THEN [a |-> a, hole |-> hole, thrown |-> TRUE]
  ELSE IF r.value
    THEN sift_hole(mo, [a EXCEPT ![hole + 1] = a[secondChild]], secondChild - 1, len)
  ELSE sift_hole(mo, [a EXCEPT ![hole + 1] = a[secondChild + 1]], secondChild, len)

sift_hole(mo, a, hole, len) ==
  IF hole < (len - 1) \div 2
    THEN sift_hole_step(mo, a, hole, len, 2 * (hole + 1),
                        MoveOrdering(mo, a[2 * (hole + 1) + 1], a[2 * (hole + 1)]))
    ELSE [a |-> a, hole |-> hole, thrown |-> FALSE]

\* the end of std::__adjust_heap once the loop has left s: the only child of
\* the last parent of a heap of even length, then __push_heap
adjust_heap_end(mo, s, holeIndex, len, value) ==
  IF s.thrown THEN [a |-> s.a, thrown |-> TRUE]
  ELSE IF len % 2 = 0 /\ s.hole = (len - 2) \div 2
    THEN push_heap(mo, [s.a EXCEPT ![s.hole + 1] = s.a[2 * (s.hole + 1)]],
                   2 * (s.hole + 1) - 1, holeIndex, value)
  ELSE push_heap(mo, s.a, s.hole, holeIndex, value)

\* std::__adjust_heap(first, holeIndex, len, value, comp)
adjust_heap(mo, a, holeIndex, len, value) ==
  adjust_heap_end(mo, sift_hole(mo, a, holeIndex, len), holeIndex, len, value)

\* the loop of std::__make_heap, from the last parent down to the root;
\* make_heap_step goes on from the heap h that __adjust_heap left
RECURSIVE make_heap_from(_, _, _)
make_heap_step(mo, h, parent) ==
  IF h.thrown \/ parent = 0 THEN h ELSE make_heap_from(mo, h.a, parent - 1)

make_heap_from(mo, a, parent) ==
  make_heap_step(mo, adjust_heap(mo, a, parent, Len(a), a[parent + 1]), parent)

\* std::priority_queue ml(move_list.begin(), move_list.end(), mo): make_heap
make_heap(mo, a) ==
  IF Len(a) < 2 THEN [a |-> a, thrown |-> FALSE]
  ELSE make_heap_from(mo, a, (Len(a) - 2) \div 2)

\* ml.pop(): std::pop_heap and pop_back
priority_queue_pop(mo, a) ==
  IF Len(a) > 1
    THEN adjust_heap(mo, SubSeq(a, 1, Len(a) - 1), 0, Len(a) - 1, a[Len(a)])
    ELSE [a |-> <<>>, thrown |-> FALSE]

\* GameState("7k/p7/8/8/3pK3/8/8/R7 w - - 0 1"): the king and the rook can
\* each take a pawn
KingTakesStart ==
  Node(PlaceAll(EmptyPosition,
          << <<28, W_KING>>, <<0, W_ROOK>>, <<48, B_PAWN>>, <<27, B_PAWN>>,
             <<63, B_KING>> >>, 1),
       TRUE, FALSE, FALSE, FALSE, FALSE, 0, FALSE, 0, 1)

\* GameState("7k/8/8/1r1p4/4P3/2N5/8/K7 w - - 0 1"): three captures of
\* different worth, by a knight and by a pawn
ThreeCapturesStart ==
  Node(PlaceAll(EmptyPosition,
          << <<0, W_KING>>, <<18, W_KNIGHT>>, <<28, W_PAWN>>, <<35, B_PAWN>>,
             <<33, B_ROOK>>, <<63, B_KING>> >>, 1),
       TRUE, FALSE, FALSE, FALSE, FALSE, 0, FALSE, 0, 1)

\* GameState("7k/8/5p2/3pP3/8/8/8/K7 w - d6 0 1"): the pawn can take on f6 and
\* en passant on d6
EnPassantTakesStart ==
  Node(PlaceAll(EmptyPosition,
          << <<0, W_KING>>, <<36, W_PAWN>>, <<35, B_PAWN>>, <<45, B_PAWN>>,
             <<63, B_KING>> >>, 1),
       TRUE, FALSE, FALSE, FALSE, FALSE, 43, TRUE, 0, 1)

OrderNodes ==
  {SearchStart, SearchStartBlack, NoMoveStart, KingTakesStart, ThreeCapturesStart,
   EnPassantTakesStart}

\* the PV hints a node may be given: none, a move that is not in its list,
\* or one of its legal moves
Hints(n) == {<<>>, <<NoMove>>} \cup { <<m>> : m \in SetOf(generate_moves(n)) }

\* the ordering object the node is searched with
OrderOf == MoveOrderingOf(node, order.hint, order.absent)

InitOrder ==
  /\ node \in OrderNodes
  /\ repeats = EmptyMap
  /\ repeats_state = "sound"
  /\ history = <<>>
  /\ lastOp = "none"
  /\ lastMove = NoMove
  /\ pre = NoObservation
  /\ gen = NotGenerated
  /\ EngineIdle
  /\ perft = PerftIdle
  /\ uci = MainStart
  /\ edit = NoEdit
  /\ evals = NotEvaluated
  /\ mag = NoMagic
  /\ \E h \in Hints(node) :
       \E e \in (IF node.en_passant_possible THEN AbsentResults ELSE {0}) :
         order = [NoOrder EXCEPT !.pc = "build", !.hint = h, !.absent = e]

\* where the node is once the queue is h: left by the exception, returned
\* with every move searched, or at the head of the loop
AfterQueue(o, h) ==
  [o EXCEPT !.heap = h.a,
            !.pc = IF h.thrown THEN "thrown" ELSE IF h.a = <<>> THEN "done" ELSE "loop"]

\* alpha_beta from generate_moves(gs) to the head of its loop: the priority
\* queue is built; an empty queue returns mate or stalemate at once
BuildQueue ==
  /\ order.pc = "build"
  /\ order' = AfterQueue(order, make_heap(OrderOf, generate_moves(node)))
  /\ UNCHANGED <<gameVars, genVars, engineVars, perft, uci, edit, evals, mag>>

\* one pass of the loop of alpha_beta: m = ml.top() is searched (make_move,
\* alpha_beta, undo_move leave gs as it was); its score ends the node with a
\* beta cutoff, or ml.pop() follows
VisitTop ==
  /\ order.pc = "loop"
  /\ \E cutoff \in BOOLEAN :
       order' = IF cutoff
                  THEN [order EXCEPT !.visited = Append(@, order.heap[1]), !.pc = "cutoff"]
                  ELSE AfterQueue([order EXCEPT !.visited = Append(@, order.heap[1])],
                                  priority_queue_pop(OrderOf, order.heap))
  /\ UNCHANGED <<gameVars, genVars, engineVars, perft, uci, edit, evals, mag>>

NextOrder == BuildQueue \/ VisitTop

SpecOrder == InitOrder /\ [][NextOrder]_vars

\* the move a goes strictly before the move b in the order of the search:
\* the PV hint before any other move, a capture before a non-capture, of two
\* captures the one with the larger victim value - attacker value
GoesBefore(mo, a, b) ==
  IF mo.pv_move # <<>> /\ a = mo.pv_move[1] THEN b # a
  ELSE IF mo.pv_move # <<>> /\ b = mo.pv_move[1] THEN FALSE
  ELSE IF capture(a) /\ ~capture(b) THEN TRUE
  ELSE IF capture(a) /\ capture(b)
    THEN /\ ~capture_score(mo, a).thrown
         /\ ~capture_score(mo, b).thrown
         /\ capture_score(mo, a).value > capture_score(mo, b).value
  ELSE FALSE

\* C27: at a search node the legal moves are visited PV hint first, then the
\* captures before the non-captures, the captures by falling victim value -
\* attacker value; no move is visited twice, and unless a beta cutoff ends the
\* node every legal move is visited.
C27_VisitOrder ==
  order.pc \in {"loop", "cutoff", "done", "thrown"} =>
    /\ \A i, j \in 1..Len(order.visited) :
         i < j => /\ order.visited[i] # order.visited[j]
                  /\ ~GoesBefore(OrderOf, order.visited[j], order.visited[i])
    /\ SetOf(order.visited) \subseteq SetOf(generate_moves(node))
    /\ order.pc \in {"done", "thrown"} =>
         SetOf(order.visited) = SetOf(generate_moves(node))

\* C30: ordering the legal moves of a legal position never fails: no
\* comparison of two moves that generate_moves returned, a capture by the king
\* and a capture en passant among them, throws "Illegal capture".
C30_OrderingNeverThrows == order.pc # "thrown"


\* ------------------------------------------------------------------------
\* Magic tables (movegen.cpp): generate_possible_occupancies, generate_magic
\* and the lookup attack_table[((occ & mask) * magic) >> (64 - shift)]
\* ------------------------------------------------------------------------
\* int rook_shifts[64], the sequence from 1
rook_shifts ==
  <<12, 11, 11, 11, 11, 11, 11, 12,
    11, 10, 10, 10, 10, 10, 10, 11,
    11, 10, 10, 10, 10, 10, 10, 11,
    11, 10, 10, 10, 10, 10, 10, 11,
    11, 10, 10, 10, 10, 10, 10, 11,
    11, 10, 10, 10, 10, 10, 10, 11,
    11, 10, 10, 10, 10, 10, 10, 11,
    12, 11, 11, 11, 11, 11, 11, 12 >>

\* int bishop_shifts[64], the sequence from 1
bishop_shifts ==
  << 6,  5,  5,  5,  5,  5,  5,  6,
     5,  5,  5,  5,  5,  5,  5,  5,
     5,  5,  7,  7,  7,  7,  5,  5,
     5,  5,  7,  9,  9,  7,  5,  5,
     5,  5,  7,  9,  9,  7,  5,  5,
     5,  5,  7,  7,  7,  7,  5,  5,
     5,  5,  5,  5,  5,  5,  5,  5,
     6,  5,  5,  5,  5,  5,  5,  6 >>

\* squares whose rook magic is generated: corners, edge squares, inner squares
RookMagicSquares == {0, 1, 8, 9, 27, 36, 55, 62, 63}

\* the calls generate_magic(i, shift, is_rook) of
\* movegen_initialize_attack_boards that are followed: every bishop, and the
\* rooks of RookMagicSquares
MagicCalls == (Squares \X {FALSE}) \cup (RookMagicSquares \X {TRUE})

\* a uint64_t is the set of its one bits (as a board is); for the product it
\* is eight bytes, lowest first: byte k of the set S
Bit(S, i, w) == IF i \in S THEN w ELSE 0

Byte(S, k) ==
  Bit(S, 8 * k, 1) + Bit(S, 8 * k + 1, 2) + Bit(S, 8 * k + 2, 4) + Bit(S, 8 * k + 3, 8)
  + Bit(S, 8 * k + 4, 16) + Bit(S, 8 * k + 5, 32) + Bit(S, 8 * k + 6, 64)
  + Bit(S, 8 * k + 7, 128)

Bytes(S) == [k \in 1..8 |-> Byte(S, k - 1)]

\* the candidate 0, and the values m = dis(gen) & dis(gen) & dis(gen) that one
\* run of the program ended with, as bytes, lowest first
ZeroMagic == <<0, 0, 0, 0, 0, 0, 0, 0>>

\* for the bishop of each square, the sequence from 1
bishop_drawn ==
  << <<167,   0,   4, 130,   0,  80, 200,   0>>,
     << 69, 130, 160,   1,   4,  16,   2,  20>>,
     <<  0,  65,   0, 207,  24,   1,  48,   0>>,
     <<  2,   4,   0, 128,  10,   4,   4,   0>>,
     <<  0,  16,   0,   0,  64,  16, 131,  64>>,
     <<200,   0,  16,  19,  32,   1,   1,   8>>,
     <<  0,   4,   8,  10,   4,   4,   4,  64>>,
     <<  0,   2,  32,   4,  65,   4,   1,   0>>,
     <<144,  18,   2,   1, 144,  64,   0,   8>>,
     <<  0,  97,  50,   2,  16,   4,  52,  18>>,
     <<  8, 128,   1, 132,  36,   8,  16,   8>>,
     <<  4,   2, 128,   0,   4,   4,   9,   0>>,
     <<  0,  72,  58,  64,  16,   1, 136,  18>>,
     <<  1,   0,  32,   8,  34,   8, 136,   6>>,
     <<  0, 160,  32,   5, 130,   0,   0,   1>>,
     <<  0,   4, 132,  12,   2,  38, 204,  16>>,
     <<  0,  36,   2,  25,  64,  16,   4,  17>>,
     <<  0,   1,  24,  40,  68,  64,   2,   0>>,
     << 32,   0,  34,  16,  48,  18,  66,   0>>,
     << 64,  64,   8, 138,   0,   0, 136,  18>>,
     <<  0,   0,  34,  16, 106,   2,   4,  80>>,
     <<  0,   1,  16,  65,  66,   2,  34,   0>>,
     <<  8,   9,   8,  72,   2, 144,  32,  10>>,
     <<  0,  18,   2,   4,   5,  38,  20,   0>>,
     <<  2,  49, 112,  64,   0,  10,   8,   4>>,
     <<160,   0,  86,  16,   4,  32,   4,   8>>,
     <<  0,  68,   0,   8,   1, 164, 144,   0>>,
     << 64,   0, 130,   0,   0,  72,  64,   0>>,
     << 64, 128,   0,  66,  32,   0,   2, 192>>,
     << 16,  80, 130,  81,  64,   0,  16,  36>>,
     <<  4,   4, 193, 140,   2,  42,  72, 128>>,
     <<  0,   2,  44,  33,  64,  33,  70,   0>>,
     <<  8,  72,  10,   0,  64,  48,   1,  32>>,
     <<  0,   1,   4,   0,  16,  16,   2,   0>>,
     << 65,  32,  36,   0,  40,   0,   4,   1>>,
     <<  6,   1,   1,   0,   8,  96,   0,   8>>,
     <<  0,  98,   0,   0,   2,   8,   1,  32>>,
     <<  0, 193, 128,   0,   2, 200,   0,  68>>,
     << 32,   2,   4, 192,   0, 137,   8,   0>>,
     << 16,  17, 197,  34,   0,   4,   1,  64>>,
     <<  0,  80,   0,  36,  68,  16, 164,   0>>,
     <<  0,  16,  64,   6,  16,   5,   1,   0>>,
     <<  0,   2,   1,   4,   4,  92,   8,   4>>,
     <<  0,   5,   3,  24,  32,  32,   4, 128>>,
     <<128,   0,   0,  36,  16,   1,  64,   8>>,
     <<128,   0,  64,  64,   2,  32, 160,  10>>,
     << 16,  36, 131, 161,   0,   8,   8,   8>>,
     << 64,  34, 128,  23,  18,  72,  17,   1>>,
     <<  0,  64,  64,  80,   3, 130,   0,   0>>,
     <<  0,   1,   5,   8, 194,   0,  66,   8>>,
     <<  0,   0,  48,  65,   0, 175,  64,   0>>,
     <<  4,   4,  12, 132,  16, 128,   0,  33>>,
     <<128,   0,   4,   7, 200,   0,  64,   0>>,
     <<  0,   2,   1,   4,  32,   4,   0,  80>>,
     << 34,   1,  34,   2,   9,  32,   8, 128>>,
     <<148, 128,   2,   4,   4,   1, 101, 152>>,
     <<128,  72,   2, 196,   0,   4,   1, 128>>,
     <<  1,  20, 144,   4,   1,   1,  32,   1>>,
     << 64,   4,   1,   2,   2,   0,   8,  32>>,
     <<  9, 136,  32,   5,  81,   4,   8,  64>>,
     << 36,   2, 130,  16,   4,  40,   8,   0>>,
     << 36,  10, 136,  36,  64,  32,   0,   8>>,
     <<128,   8,  40,  33,   8,  32,   0,   0>>,
     << 32,   1,  12,   4,  66, 104,  10,  16>> >>

\* for the rook of each square, the sequence from 1
rook_drawn ==
  << <<128,  16,  32,   9,  64,   0, 128, 128>>,
     <<192,   0,  32,   0,  16,   1, 192,   0>>,
     << 64,   1, 137,   2,  32,  16,   0,   1>>,
     << 36,   0,  16,   0,   9,  32,   0,   9>>,
     <<  8,  16,  96,   4,   0,   2,   0,  78>>,
     <<  0,   2,   0,   4, 128,   1, 128,  16>>,
     << 36,   0, 146,   0,   1,   8,   0,   2>>,
     <<  0,  33,   0, 130,  64,   0,   0,  65>>,
     <<130,   0,  64, 160,   0, 128,   0,   1>>,
     <<  0,  80,   9,  32,   0,  64,   0, 168>>,
     <<  0,  32,   0,  16, 128, 128,  16,   0>>,
     << 10,  64,   0, 162,  17,   0,   2,  64>>,
     <<128,   1,   8,   0,   4, 128,   4,   0>>,
     <<  0,   9,   0,  68,  10,   0,  33, 130>>,
     <<  1,   4,  48,   2,   8,   0,  12,  32>>,
     <<128,  32,   0,  65,   0, 128,  32,   0>>,
     <<128,   4,  64,   0, 128, 100, 130,  68>>,
     <<  6,  64,   4,  32, 128, 128,  32,   0>>,
     <<  0,  16,   0,  32, 128, 131,   0, 128>>,
     << 32,  40,   4,  16,   0,   1,   3, 128>>,
     <<  0,   4,   0,  24, 128, 128,   4,   0>>,
     <<  0,   4,  72,  22,   0,   1,   1,   0>>,
     <<  8,   2, 145,  80,   0,   4,   2,   2>>,
     << 65,   0, 132,   1,   0, 146,   0,   4>>,
     <<  4,  64,   0, 128, 137,  32, 128,  33>>,
     <<128,   0,  64, 128,   9,  32, 128, 130>>,
     <<  0,   5,  32,   0,  65, 208,   0,   0>>,
     <<  4, 144,   8,   0,   1,  33,  68,   8>>,
     <<128,   0,   4, 128,   0,   8,  16, 128>>,
     <<128,   0,  66, 128,   0,   4,  16, 160>>,
     <<  0,   2,   0,   1,   1,   4,   0, 100>>,
     << 20,  77,   0,   0, 130,   0,   0,   0>>,
     << 36,   0, 128, 128,   0,  64, 164,   9>>,
     << 32,  64,   0,   2, 141,   0,   2,  16>>,
     << 98,   0,  96,   0,   8,   4,  80,  80>>,
     <<  1,  56, 128,   3,  16, 128,   8, 128>>,
     <<  0,   8,   0, 209, 132,   1, 141,  16>>,
     <<  0,   6, 128, 128,   0, 140,  80,   0>>,
     <<145,  18,   0,   4,  88,  16,   0,   0>>,
     <<129,   0,   0,   2,  68,  40, 128,  40>>,
     <<  0, 128,  32, 128,  20,  64,   8,   0>>,
     << 34, 128,   0,  64, 144,   0,  32, 161>>,
     << 64,   0,   3, 160,  16,   0, 163,   5>>,
     << 32,   0,   1,   1,  16,  12,  72,  64>>,
     <<  5,   0,   1,  72,   0,  17,  36,   4>>,
     <<  0,   4,   4,  32,  16,   0,  18,   0>>,
     <<  8,   0,   2,   1,  36,   0,   2,  32>>,
     <<  1,   0, 130,  32,  68, 136, 128,  16>>,
     <<  0,  35,   4, 128,  64,   0,   1, 136>>,
     <<  0,   1,  33, 128,   0,  64, 128,   0>>,
     <<  0,  66, 129,  20, 160,   0,  10,   0>>,
     <<128,  12, 128,   0,  16,   2,   8,   4>>,
     <<128, 128, 164,   0, 136,   1,  20,  16>>,
     <<  0,  10,   8, 132,  16,   1,  66,  10>>,
     <<  0,   4,   2,   8, 129,  16,  64,   0>>,
     <<128,  65,   2,   0,   1, 128,   4,   0>>,
     <<  1,  17,  64,  32,   0, 128,   0,   1>>,
     << 18,   9,  34,   0,  65, 128,   0, 192>>,
     << 34,  64,  24, 128,  16,   0,   2,  32>>,
     <<  9,   0,  16,  36,   0,  33,  16,  32>>,
     <<  3,  16,   0,   3, 104,   1,  72,   0>>,
     <<  5,   0,   4,   2,  24,   0, 193,  17>>,
     << 68,   1, 130,   0,  56,  80,   9,  32>>,
     <<  2,  68, 128,   0, 225,   0,   0, 132>> >>

DrawnMagic(c) == IF c[2] THEN rook_drawn[c[1] + 1] ELSE bishop_drawn[c[1] + 1]

\* a value of dis(gen) & dis(gen) & dis(gen) under which, for the bishop of
\* g7, subsets of the mask with the same attack share a slot
SharingMagic == <<80, 32, 4, 121, 205, 16, 16, 2>>

\* the values the random generator may hand to a call: 0, the value drawn for
\* this call, the value drawn for the next square, and SharingMagic
Candidates(c) ==
  {ZeroMagic, DrawnMagic(c), DrawnMagic(<<(c[1] + 1) % 64, c[2]>>), SharingMagic}

\* a * m, eight bytes each: the sum of the byte products of column k, from
\* the product i of the column on
RECURSIVE ColumnSum(_, _, _, _)
ColumnSum(a, m, k, i) ==
  IF i > k THEN 0 ELSE a[i + 1] * m[k - i + 1] + ColumnSum(a, m, k, i + 1)

\* column k of the product with the carry of the columns below it
RECURSIVE Column(_, _, _)
Column(a, m, k) ==
  ColumnSum(a, m, k, 0) + (IF k = 0 THEN 0 ELSE Column(a, m, k - 1) \div 256)

\* the two highest bytes of the product a * m modulo 2^64, c6 being its
\* column 6 with the carries below it
HighBytes(a, m, c6) ==
  ((ColumnSum(a, m, 7, 0) + (c6 \div 256)) % 256) * 256 + (c6 % 256)

\* (occupancy * m) >> (64 - shift), for shift <= 16: the product is taken
\* modulo 2^64, its two highest bytes hold the offset
offset_of_bytes(a, m, shift) == HighBytes(a, m, Column(a, m, 6)) \div (2 ^ (16 - shift))

magic_offset(occupancy, m, shift) == offset_of_bytes(Bytes(occupancy), m, shift)

\* occupancies[i] of generate_possible_occupancies(sq, mask, 0, 0), bits being
\* the squares of the mask in rising order: the list without the lowest
\* square of the mask comes first, so the lowest bit of i stands for the
\* highest square
occupancy_at(bits, i) ==
  { bits[j] : j \in { j \in 1..Len(bits) : (i \div (2 ^ (Len(bits) - j))) % 2 = 1 } }

\* the body of the loop over the occupancies in generate_magic, for the
\* offset and the attack of occupancies[i], without its test: the slot is
\* written whatever it holds
fill_slot_unchecked(r, offset, attack) ==
  [collision |-> FALSE, table |-> [r.table EXCEPT ![offset] = attack]]

\* the body of the loop over the occupancies in generate_magic, for the
\* offset and the attack of occupancies[i].  A slot not yet used holds ~0ull,
\* all 64 bits.
fill_slot(r, offset, attack) ==
  IF r.table[offset] = Squares \/ r.table[offset] = attack
    THEN [collision |-> FALSE, table |-> [r.table EXCEPT ![offset] = attack]]
    ELSE [collision |-> TRUE, table |-> r.table]

\* the loop over occupancies[lo], ..., occupancies[hi - 1] in generate_magic,
\* entered with the table and the collision flag r; a collision breaks it
RECURSIVE fill_table(_, _, _, _, _)
fill_table(g, m, r, lo, hi) ==
  IF r.collision \/ lo >= hi THEN r
  ELSE IF hi = lo + 1
    THEN fill_slot(r, magic_offset(occupancy_at(g.bits, lo), m, g.shift),
                   generate_attack(g.square, occupancy_at(g.bits, lo), g.is_rook))
  ELSE fill_table(g, m, fill_table(g, m, r, lo, (lo + hi) \div 2), (lo + hi) \div 2, hi)

\* one pass of while (true) in generate_magic with the candidate m: the
\* table is reset to ~0ull, filled, and the Magic returned if nothing collided
try_magic(g, m) ==
  fill_table([square |-> g.square, is_rook |-> g.is_rook, shift |-> g.shift,
              bits |-> SortedSeq(generate_occupancy_mask(g.square, g.is_rook))],
             m, [collision |-> FALSE, table |-> [o \in 0..(2 ^ g.shift - 1) |-> Squares]],
             0, 2 ^ Cardinality(generate_occupancy_mask(g.square, g.is_rook)))

\* generate_magic after the pass that left r
AfterPass(g, m, r) ==
  IF r.collision THEN [g EXCEPT !.rejected = m]
  ELSE [g EXCEPT !.pc = "done", !.magic = m, !.attack_table = r.table]

\* movegen_initialize_attack_boards calls generate_magic(i, rook_shifts[i],
\* true) or generate_magic(i, bishop_shifts[i], false)
InitMagic ==
  /\ node = DefaultStart
  /\ repeats = EmptyMap
  /\ repeats_state = "sound"
  /\ history = <<>>
  /\ lastOp = "none"
  /\ lastMove = NoMove
  /\ pre = NoObservation
  /\ gen = NotGenerated
  /\ EngineIdle
  /\ perft = PerftIdle
  /\ uci = MainStart
  /\ edit = NoEdit
  /\ evals = NotEvaluated
  /\ order = NoOrder
  /\ \E c \in MagicCalls :
       mag = [NoMagic EXCEPT !.pc = "loop", !.square = c[1], !.is_rook = c[2],
                             !.shift = IF c[2] THEN rook_shifts[c[1] + 1]
                                       ELSE bishop_shifts[c[1] + 1]]

\* generate_magic: a candidate is drawn and tried
TryMagic ==
  /\ mag.pc = "loop"
  /\ \E m \in Candidates(<<mag.square, mag.is_rook>>) :
       mag' = AfterPass(mag, m, try_magic(mag, m))
  /\ UNCHANGED <<gameVars, genVars, engineVars, perft, uci, edit, evals, order>>

NextMagic == TryMagic

SpecMagic == InitMagic /\ [][NextMagic]_vars

\* the mask the call in progress works with, and a lookup in the table it
\* returned: attack_table[((occ & mask) * magic) >> (64 - shift)]
MagicMask == generate_occupancy_mask(mag.square, mag.is_rook)

MagicLookup(occ) == mag.attack_table[magic_offset(occ \cap MagicMask, mag.magic, mag.shift)]

\* C28: the shift of every square is the number of squares of its mask; and
\* once generate_magic has returned, for every occupancy (every subset of the
\* mask, alone and with all squares outside the mask occupied) the offset is
\* below 2^shift and the slot holds the ray-cast attack of the occupancy.  So
\* two subsets that share a slot have the same attack: the magic was accepted
\* with harmless collisions only.
C28_MagicLookup ==
  /\ \A s \in Squares :
       /\ rook_shifts[s + 1] = Cardinality(generate_occupancy_mask(s, TRUE))
       /\ bishop_shifts[s + 1] = Cardinality(generate_occupancy_mask(s, FALSE))
  /\ mag.pc = "done" =>
       \A sub \in SUBSET MagicMask : \A extra \in {{}, Squares \ MagicMask} :
         /\ magic_offset(sub, mag.magic, mag.shift) \in 0..(2 ^ mag.shift - 1)
         /\ MagicLookup(sub \cup extra) = generate_attack(mag.square, sub \cup extra, mag.is_rook)

\* C28 witness: generate_magic has rejected a candidate and then returned a
\* magic under which subsets of the mask share a slot, so that a slot of the
\* table was never written
C28_Witness ==
  /\ mag.pc = "done"
  /\ mag.rejected # <<>>
  /\ \E o \in DOMAIN mag.attack_table : mag.attack_table[o] = Squares

====
